---- MODULE Spec2Model ----
(***************************************************************************)
(* Model of nqm-iot-database-utils: the batch executor                     *)
(* sqlite-helper.executeMany running against one serialized sqlite3        *)
(* connection, and the query shaping of sqlite-manager.getDataQuery.       *)
(***************************************************************************)
EXTENDS Integers, Sequences, FiniteSets, TLC

\* ---------------------------------------------------------------- bounds
\* number of executeMany calls that may be in flight on the connection
MaxBatches == 2
\* total number of data rows over all calls
MaxRows == 2
\* number of commands the engine may reject (prepare, run, finalize)
MaxFail == 2
\* how far below zero and above the cap the requested limits range
MaxOver == 1
\* keys of a projection
MaxProjection == 2
\* rows a read hands back
MaxReadRows == 1
\* rows of the data table an update runs on
MaxTableRows == 2
\* columns of a data schema handed to convertSchema
MaxColumns == 2
\* elements of an array and members of an object handed to the codec
MaxElements == 2
\* rows of one executeInsert batch
MaxInsertRows == 3
\* rows of one addData, updateData or deleteData call
MaxWriteRows == 2

\* default cap of a select query ("a default limit of 1000 is applied")
SQLITE_QUERY_LIMIT == 1000

Batches == 1..MaxBatches

\* Object.keys(row) of the rows the callers pass: ordered column lists.
\* "a,b" is one column whose name contains a comma.
Shapes == {<<"a">>, <<"a", "b">>, <<"a,b">>}

VARIABLES
  pc,               \* position of each executeMany call
  data,             \* the rows of each call, as their Object.keys
  idx,              \* rows of the for-loop already submitted
  cachedStatements, \* the Map of each call, in insertion order
  templateCalls,    \* calls of sqliteStatementCreator made by each call
  promise,          \* the promise executeMany returned
  log,              \* every command submitted to the connection, in order
  done,             \* number of commands of log the engine has completed
  res,              \* outcome (TRUE = ok) of each completed command
  txnOpen,          \* engine: a transaction is open
  uncommitted,      \* engine: rows written inside the open transaction
  stored,           \* engine: rows durably in the table
  nFail,            \* commands rejected by the engine so far
  running,          \* call whose synchronous code holds the JS thread, or 0
  selectQuery,      \* getDataQuery: the query handed to the query builder
  qCall,            \* getDataQuery: which entry point ran, with its options
  reads,            \* getDataQuery: the reads handed to db.allAsync
  qResult,          \* getDataQuery: what the call resolved with
  tdxSchema,        \* convertSchema: the TDX data schema handed in
  sqliteSchema,     \* convertSchema: what the call returned or threw
  codec,            \* convertToSqlite / convertToTdx: argument and results
  upd,              \* updateDataByQuery: the call and what it resolved with
  statements,       \* updateDataByQuery: statements handed to the engine
  table,            \* engine: the rows of the data table, as their a and b
  info,             \* database: the info table (dataset id and schema)
  dataTable,        \* database: columns of the data table and of its index
  conn,             \* the db object: open flag and cached general schema
  create,           \* createDataset: the call in progress
  reader,           \* getGeneralSchema: the call in progress
  ins,              \* executeInsert: the call and its prepared statement
  wr,               \* addData, updateData, deleteData, getResource: the calls
  warnedAlready,    \* the codes of the warnings emitted by the process
  warnings          \* the warnings emitted, in order

batchVars == <<pc, data, idx, cachedStatements, templateCalls, promise, log,
               done, res, txnOpen, uncommitted, stored, nFail, running>>
queryVars == <<selectQuery, qCall, reads, qResult>>
convVars == <<tdxSchema, sqliteSchema, codec>>
updateVars == <<upd, statements, table>>
datasetVars == <<info, dataTable, conn, create, reader>>
insertVars == <<ins>>
writeVars == <<wr, warnedAlready, warnings>>
entryVars == <<insertVars, writeVars>>
managerVars == <<updateVars, datasetVars, entryVars>>
otherVars == <<queryVars, convVars, managerVars>>
vars == <<batchVars, otherVars>>

\* ------------------------------------------------------------- helpers
\* Array.prototype.join() with the default "," separator
RECURSIVE Join(_)
Join(keys) ==
  IF keys = <<>> THEN ""
  ELSE IF Len(keys) = 1 THEN keys[1]
  ELSE keys[1] \o "," \o Join(Tail(keys))

\* variant: the cache never answers, every row compiles its own statement
CacheGetAlwaysMiss(cache, key) == 0

\* cachedStatements.get(key): position of the statement in the Map, 0 = undefined
CacheGet(cache, key) ==
  IF \E s \in 1..Len(cache) : cache[s].key = key
  THEN CHOOSE s \in 1..Len(cache) : cache[s].key = key
  ELSE 0

Cmd(op, b, s, row) == [op |-> op, b |-> b, s |-> s, row |-> row]

NoError == [kind |-> "none", cmd |-> 0]
Pending == [state |-> "pending", err |-> NoError]

\* variant: reject leaves the promise as it is
RejectIgnored(p, e) == p

\* variant: a later error replaces the one the promise was rejected with
RejectLastWins(p, e) == [state |-> "rejected", err |-> e]

\* reject(error): a settled promise keeps its first outcome
Reject(p, e) ==
  IF p.state = "pending" THEN [state |-> "rejected", err |-> e] ELSE p

\* resolve(result)
Resolve(p) ==
  IF p.state = "pending" THEN [state |-> "fulfilled", err |-> NoError] ELSE p

\* variant: the row loop awaits between BEGIN and COMMIT
YieldsInLoop(p) == p \in {"loop", "waiting"}

\* executeMany has no await: it keeps the thread until all is submitted
Yields(p) == p = "waiting"

Thread(b, p) == IF Yields(p) THEN 0 ELSE b

\* for (const dataRow of data): another row, or fall through to finally
LoopPc(b, i) == IF i < Len(data[b]) THEN "loop" ELSE "commit"

RowsUsed(d) == LET RECURSIVE Sum(_)
                   Sum(S) == IF S = {} THEN 0
                             ELSE LET x == CHOOSE y \in S : TRUE
                                  IN Len(d[x]) + Sum(S \ {x})
               IN Sum(Batches)

\* positions in log of the finalize commands of call b
Finalizes(b) == {j \in 1..Len(log) : log[j].op = "FINALIZE" /\ log[j].b = b}

FailedFinalizes(b) == {j \in Finalizes(b) : j <= done /\ ~res[j]}

Min(S) == CHOOSE x \in S : \A y \in S : x <= y

\* Promise.all(promisedFinalizes) has settled and its handler is queued
ReactionReady(b) ==
  /\ pc[b] = "waiting"
  /\ \/ FailedFinalizes(b) # {}
     \/ \A j \in Finalizes(b) : j <= done /\ res[j]

\* the thread is free and no promise handler is queued: queued handlers run
\* before the next callback of the connection and before the next call
Idle == running = 0 /\ \A b \in Batches : ~ReactionReady(b)

\* --------------------------------------------------------------- Init
\* nothing submitted, no call made
InitBatch ==
  /\ pc = [b \in Batches |-> "idle"]
  /\ data = [b \in Batches |-> <<>>]
  /\ idx = [b \in Batches |-> 0]
  /\ cachedStatements = [b \in Batches |-> <<>>]
  /\ templateCalls = [b \in Batches |-> 0]
  /\ promise = [b \in Batches |-> Pending]
  /\ log = <<>>
  /\ done = 0
  /\ res = <<>>
  /\ txnOpen = FALSE
  /\ uncommitted = {}
  /\ stored = {}
  /\ nFail = 0
  /\ running = 0

\* no read call made
InitQuery ==
  /\ selectQuery = [limit |-> {}, offset |-> {}, order |-> {}, columns |-> <<>>]
  /\ qCall = [fn |-> "none", pc |-> "none", distinct |-> FALSE, limit |-> {},
              skip |-> {}, sort |-> <<>>,
              projection |-> <<>>, schema |-> <<>>, includedColumns |-> <<>>]
  /\ reads = <<>>
  /\ qResult = [state |-> "pending", data |-> <<>>]

\* no conversion made
InitConvert ==
  /\ tdxSchema = <<>>
  /\ sqliteSchema = [state |-> "none", schema |-> <<>>]
  /\ codec = [pc |-> "none"]

\* no update call made, an empty data table
InitUpdate ==
  /\ upd = [pc |-> "none"]
  /\ statements = <<>>
  /\ table = <<>>

\* an open connection to a database without a dataset
InitDataset ==
  /\ info = [exists |-> FALSE, id |-> {}, schema |-> {}]
  /\ dataTable = [exists |-> FALSE, columns |-> <<>>, index |-> {}]
  /\ conn = [open |-> TRUE, generalSchema |-> {}, loads |-> 0]
  /\ create = [pc |-> "none"]
  /\ reader = [pc |-> "none"]

\* no executeInsert call made
InitInsert ==
  ins = [pc |-> "none", prepareOk |-> TRUE, rows |-> <<>>, queue |-> <<>>,
         ran |-> 0, finalizeCalls |-> 0, finalized |-> FALSE,
         refinalized |-> FALSE, early |-> FALSE, promise |-> Pending]

\* no call of addData, updateData, deleteData or getResource made, no
\* warning emitted
InitCalls ==
  /\ wr = [fn |-> "none", pc |-> "none", rows |-> <<>>, flag |-> FALSE,
           columns |-> <<>>, sqlData |-> <<>>,
           outcome |-> [state |-> "pending", response |-> "", errors |-> <<>>]]
  /\ warnedAlready = {}
  /\ warnings = <<>>

Init ==
  /\ InitBatch
  /\ InitQuery
  /\ InitConvert
  /\ InitUpdate
  /\ InitDataset
  /\ InitInsert
  /\ InitCalls

\* ------------------------------------------------ executeMany, in order
\* helper.executeMany(db, sqliteStatementCreator, data): new Promise,
\* db.serialize, an empty Map
ExecuteMany(b) ==
  /\ Idle
  /\ pc[b] = "idle"
  /\ \A c \in Batches : c < b => pc[c] # "idle"
  /\ \E n \in 0..(MaxRows - RowsUsed(data)) :
       \E d \in [1..n -> Shapes] :
         data' = [data EXCEPT ![b] = d]
  /\ pc' = [pc EXCEPT ![b] = "begin"]
  /\ running' = Thread(b, "begin")
  /\ UNCHANGED <<idx, cachedStatements, templateCalls, promise, log, done,
                 res, txnOpen, uncommitted, stored, nFail, otherVars>>

\* db.run("BEGIN IMMEDIATE TRANSACTION;")
Begin(b) ==
  /\ running \in {0, b}
  /\ pc[b] = "begin"
  /\ log' = Append(log, Cmd("BEGIN", b, 0, 0))
  /\ pc' = [pc EXCEPT ![b] = LoopPc(b, 0)]
  /\ running' = Thread(b, pc'[b])
  /\ UNCHANGED <<data, idx, cachedStatements, templateCalls, promise, done,
                 res, txnOpen, uncommitted, stored, nFail, otherVars>>

\* the commands one loop iteration submits for row i, given the cache
RowCommands(b, i, cache) ==
  LET keys == data[b][i]
      s == CacheGet(cache, Join(keys))
  IN IF s = 0
     THEN <<Cmd("PREPARE", b, Len(cache) + 1, i),
            Cmd("RUN", b, Len(cache) + 1, i)>>
     ELSE <<Cmd("RUN", b, s, i)>>

\* cachedStatements after the iteration for row i
RowCache(b, i, cache) ==
  LET keys == data[b][i]
  IN IF CacheGet(cache, Join(keys)) = 0
     THEN Append(cache, [key |-> Join(keys), cols |-> keys])
     ELSE cache

\* one iteration of the for loop in which nothing throws
RowStep(b) ==
  /\ running \in {0, b}
  /\ pc[b] = "loop"
  /\ LET i == idx[b] + 1
         cache == cachedStatements[b]
     IN /\ log' = log \o RowCommands(b, i, cache)
        /\ cachedStatements' = [cachedStatements EXCEPT ![b] = RowCache(b, i, cache)]
        /\ templateCalls' = [templateCalls EXCEPT ![b] =
              IF CacheGet(cache, Join(data[b][i])) = 0 THEN @ + 1 ELSE @]
        /\ idx' = [idx EXCEPT ![b] = i]
        /\ pc' = [pc EXCEPT ![b] = LoopPc(b, i)]
  /\ running' = Thread(b, pc'[b])
  /\ UNCHANGED <<data, promise, done, res, txnOpen, uncommitted, stored,
                 nFail, otherVars>>

\* sqliteStatementCreator(dataRowKeys) throws: catch (error) { reject(error) }
TemplateThrows(b) ==
  /\ running \in {0, b}
  /\ pc[b] = "loop"
  /\ CacheGet(cachedStatements[b], Join(data[b][idx[b] + 1])) = 0
  /\ templateCalls' = [templateCalls EXCEPT ![b] = @ + 1]
  /\ promise' = [promise EXCEPT ![b] =
        Reject(@, [kind |-> "template", cmd |-> idx[b] + 1])]
  /\ pc' = [pc EXCEPT ![b] = "commit"]
  /\ running' = Thread(b, "commit")
  /\ UNCHANGED <<data, idx, cachedStatements, log, done, res, txnOpen,
                 uncommitted, stored, nFail, otherVars>>

\* for (const preparedStatement of cachedStatements.values())
\*   promisedFinalizes.push(promisifiedFinalize(preparedStatement))
FinalizeCommands(b, cache) ==
  [s \in 1..Len(cache) |-> Cmd("FINALIZE", b, s, 0)]

\* variant: COMMIT is not in a finally block, an exception skips it
FinallyCommandsUnlessThrown(b) ==
  IF promise[b].state = "rejected" THEN <<>> ELSE <<Cmd("COMMIT", b, 0, 0)>>

\* variant: the statements are finalized before the COMMIT
FinallyCommandsAfterFinalize(b) ==
  FinalizeCommands(b, cachedStatements[b]) \o <<Cmd("COMMIT", b, 0, 0)>>

\* variant: a batch that raised an error is rolled back
FinallyCommandsRollback(b) ==
  IF promise[b].state = "rejected"
  THEN <<Cmd("ROLLBACK", b, 0, 0)>>
  ELSE <<Cmd("COMMIT", b, 0, 0)>>

\* finally { db.run("COMMIT TRANSACTION;") }
FinallyCommands(b) == <<Cmd("COMMIT", b, 0, 0)>>

Finally(b) ==
  /\ running \in {0, b}
  /\ pc[b] = "commit"
  /\ log' = log \o FinallyCommands(b)
  /\ pc' = [pc EXCEPT ![b] = "finalize"]
  /\ running' = Thread(b, "finalize")
  /\ UNCHANGED <<data, idx, cachedStatements, templateCalls, promise, done,
                 res, txnOpen, uncommitted, stored, nFail, otherVars>>

FinalizeAll(b) ==
  /\ running \in {0, b}
  /\ pc[b] = "finalize"
  /\ log' = log \o FinalizeCommands(b, cachedStatements[b])
  /\ pc' = [pc EXCEPT ![b] = "waiting"]
  /\ running' = Thread(b, "waiting")
  /\ UNCHANGED <<data, idx, cachedStatements, templateCalls, promise, done,
                 res, txnOpen, uncommitted, stored, nFail, otherVars>>

\* ------------------------------------------- the serialized connection
\* db.serialize: the commands complete one after another, in the order
\* they were submitted, and each callback runs when the thread is free
Current == log[done + 1]

CanComplete(op) == Idle /\ done < Len(log) /\ Current.op = op

PrepareFailed(b, s) ==
  \E j \in 1..done : log[j] = Cmd("PREPARE", b, s, log[j].row) /\ ~res[j]

\* BEGIN completes; db.run was given no callback, so its outcome is dropped.
\* The engine refuses a BEGIN inside an open transaction.
DbRunBegin ==
  /\ CanComplete("BEGIN")
  /\ done' = done + 1
  /\ res' = Append(res, ~txnOpen)
  /\ txnOpen' = TRUE
  /\ UNCHANGED <<pc, data, idx, cachedStatements, templateCalls, promise, log,
                 uncommitted, stored, nFail, running, otherVars>>

\* the end of the transaction completes; db.run was given no callback
DbRunCommit ==
  /\ Idle /\ done < Len(log) /\ Current.op \in {"COMMIT", "ROLLBACK"}
  /\ done' = done + 1
  /\ res' = Append(res, txnOpen)
  /\ txnOpen' = FALSE
  /\ stored' = IF Current.op = "COMMIT" THEN stored \cup uncommitted ELSE stored
  /\ uncommitted' = {}
  /\ UNCHANGED <<pc, data, idx, cachedStatements, templateCalls, promise, log,
                 nFail, running, otherVars>>

\* db.prepare(..., (error) => { if (error) reject(Error(error)) })
PrepareCallback ==
  /\ CanComplete("PREPARE")
  /\ \E ok \in BOOLEAN :
       /\ ~ok => nFail < MaxFail
       /\ nFail' = IF ok THEN nFail ELSE nFail + 1
       /\ res' = Append(res, ok)
       /\ promise' = [promise EXCEPT ![Current.b] =
             IF ok THEN @ ELSE Reject(@, [kind |-> "engine", cmd |-> done + 1])]
  /\ done' = done + 1
  /\ UNCHANGED <<pc, data, idx, cachedStatements, templateCalls, log, txnOpen,
                 uncommitted, stored, running, otherVars>>

\* statement.run(Object.values(dataRow), (error) => { if (error) reject(Error(error)) })
\* A statement whose prepare failed cannot run. A row that ran is written
\* into the open transaction.
RunCallback ==
  /\ CanComplete("RUN")
  /\ \E ok \in BOOLEAN :
       /\ PrepareFailed(Current.b, Current.s) => ~ok
       /\ (~ok /\ ~PrepareFailed(Current.b, Current.s)) => nFail < MaxFail
       /\ nFail' = IF ok \/ PrepareFailed(Current.b, Current.s) THEN nFail ELSE nFail + 1
       /\ res' = Append(res, ok)
       /\ promise' = [promise EXCEPT ![Current.b] =
             IF ok THEN @ ELSE Reject(@, [kind |-> "engine", cmd |-> done + 1])]
       /\ uncommitted' = IF ok /\ txnOpen
                         THEN uncommitted \cup {<<Current.b, Current.row>>}
                         ELSE uncommitted
       /\ stored' = IF ok /\ ~txnOpen
                    THEN stored \cup {<<Current.b, Current.row>>}
                    ELSE stored
  /\ done' = done + 1
  /\ UNCHANGED <<pc, data, idx, cachedStatements, templateCalls, log, txnOpen,
                 running, otherVars>>

\* promisifiedFinalize: statement.finalize(cb) settles its own promise
FinalizeCallback ==
  /\ CanComplete("FINALIZE")
  /\ \E ok \in BOOLEAN :
       /\ ~ok => nFail < MaxFail
       /\ nFail' = IF ok THEN nFail ELSE nFail + 1
       /\ res' = Append(res, ok)
  /\ done' = done + 1
  /\ UNCHANGED <<pc, data, idx, cachedStatements, templateCalls, promise, log,
                 txnOpen, uncommitted, stored, running, otherVars>>

\* Promise.all(promisedFinalizes).then((result) => resolve(result))
PromiseAllThen(b) ==
  /\ running = 0
  /\ pc[b] = "waiting"
  /\ \A j \in Finalizes(b) : j <= done /\ res[j]
  /\ promise' = [promise EXCEPT ![b] = Resolve(@)]
  /\ pc' = [pc EXCEPT ![b] = "done"]
  /\ UNCHANGED <<data, idx, cachedStatements, templateCalls, log, done, res,
                 txnOpen, uncommitted, stored, nFail, running, otherVars>>

\* variant: the error of a failed finalize is dropped
PromiseAllCatchDropped(b) ==
  /\ running = 0
  /\ pc[b] = "waiting"
  /\ FailedFinalizes(b) # {}
  /\ pc' = [pc EXCEPT ![b] = "done"]
  /\ UNCHANGED <<data, idx, cachedStatements, templateCalls, promise, log,
                 done, res, txnOpen, uncommitted, stored, nFail, running,
                 otherVars>>

\* variant: a failed finalize is swallowed and the call resolves
PromiseAllCatchResolves(b) ==
  /\ running = 0
  /\ pc[b] = "waiting"
  /\ FailedFinalizes(b) # {}
  /\ promise' = [promise EXCEPT ![b] = Resolve(@)]
  /\ pc' = [pc EXCEPT ![b] = "done"]
  /\ UNCHANGED <<data, idx, cachedStatements, templateCalls, log, done, res,
                 txnOpen, uncommitted, stored, nFail, running, otherVars>>

\* Promise.all(promisedFinalizes).catch((error) => reject(error))
PromiseAllCatch(b) ==
  /\ running = 0
  /\ pc[b] = "waiting"
  /\ FailedFinalizes(b) # {}
  /\ promise' = [promise EXCEPT ![b] =
        Reject(@, [kind |-> "engine", cmd |-> Min(FailedFinalizes(b))])]
  /\ pc' = [pc EXCEPT ![b] = "done"]
  /\ UNCHANGED <<data, idx, cachedStatements, templateCalls, log, done, res,
                 txnOpen, uncommitted, stored, nFail, running, otherVars>>

Next ==
  \/ \E b \in Batches : ExecuteMany(b)
  \/ \E b \in Batches : Begin(b)
  \/ \E b \in Batches : RowStep(b)
  \/ \E b \in Batches : TemplateThrows(b)
  \/ \E b \in Batches : Finally(b)
  \/ \E b \in Batches : FinalizeAll(b)
  \/ DbRunBegin
  \/ PrepareCallback
  \/ RunCallback
  \/ DbRunCommit
  \/ FinalizeCallback
  \/ \E b \in Batches : PromiseAllThen(b)
  \/ \E b \in Batches : PromiseAllCatch(b)

Spec == Init /\ [][Next]_vars

\* the steps of the calls in progress: the synchronous code, the callbacks
\* of the connection and the promise handlers
Run ==
  \/ \E b \in Batches : Begin(b)
  \/ \E b \in Batches : RowStep(b)
  \/ \E b \in Batches : TemplateThrows(b)
  \/ \E b \in Batches : Finally(b)
  \/ \E b \in Batches : FinalizeAll(b)
  \/ DbRunBegin
  \/ PrepareCallback
  \/ RunCallback
  \/ DbRunCommit
  \/ FinalizeCallback
  \/ \E b \in Batches : PromiseAllThen(b)
  \/ \E b \in Batches : PromiseAllCatch(b)

\* the event loop runs what is ready: the synchronous code of a call runs
\* to its end, the connection delivers every callback, and every queued
\* promise handler runs
FairSpec == Spec /\ WF_vars(Run)

\* ------------------------------------------------- JavaScript values
\* a value carries its kind; a string is a TLA+ string, an array a
\* sequence of values, an object a sequence of [key, value] in the order
\* the keys were inserted
Str(s) == [t |-> "string", v |-> s]
Num(n) == [t |-> "number", v |-> n]
Arr(e) == [t |-> "array", v |-> e]
Obj(f) == [t |-> "object", v |-> f]
Null == [t |-> "null", v |-> 0]
Undefined == [t |-> "undefined", v |-> 0]

\* the values that || replaces by its right operand
Falsy(x) ==
  \/ x.t \in {"null", "undefined"}
  \/ x.t = "string" /\ x.v = ""
  \/ x.t = "number" /\ x.v = 0

\* x || ""
OrEmpty(x) == IF Falsy(x) THEN Str("") ELSE x

\* x[i] for a zero-based i; undefined past the end and on a number
Element(x, i) ==
  IF x.t = "array" /\ i < Len(x.v) THEN x.v[i + 1]
  ELSE IF x.t = "string" /\ i < Len(x.v) THEN Str(SubSeq(x.v, i + 1, i + 1))
  ELSE Undefined

\* own property test and property read of an object
HasOwnProperty(x, key) ==
  x.t = "object" /\ \E i \in 1..Len(x.v) : x.v[i].key = key

Property(x, key) ==
  x.v[CHOOSE i \in 1..Len(x.v) : x.v[i].key = key].value

UpperLetters == "ABCDEFGHIJKLMNOPQRSTUVWXYZ"
LowerLetters == "abcdefghijklmnopqrstuvwxyz"

\* s with every character of from replaced by the one of to in its place
MapString(s, from, to) ==
  LET MapChar(c) ==
        IF \E i \in 1..Len(from) : SubSeq(from, i, i) = c
        THEN LET i == CHOOSE i \in 1..Len(from) : SubSeq(from, i, i) = c
             IN  SubSeq(to, i, i)
        ELSE c
      RECURSIVE Map(_)
      Map(r) == IF r = "" THEN "" ELSE MapChar(Head(r)) \o Map(Tail(r))
  IN  Map(s)

ToLowerCase(s) == MapString(s, UpperLetters, LowerLetters)
ToUpperCase(s) == MapString(s, LowerLetters, UpperLetters)

\* s.indexOf(sub) >= 0, and a one-word RegExp tested on a string
Includes(s, sub) ==
  \E i \in 1..(Len(s) - Len(sub) + 1) : SubSeq(s, i, i + Len(sub) - 1) = sub

\* ------------------------------------------------- schema converter
\* sqlite-constants.js
TDX_TYPE_NAME == "__tdxType"
TDX_TYPE_STRING == "string"
TDX_TYPE_BOOLEAN == "boolean"
TDX_TYPE_DATE == "date"
TDX_TYPE_NUMBER == "number"
TDX_TYPE_INT == "INT"
TDX_TYPE_REAL == {"REAL", "FLOAT"}
SQLITE_TYPE_TEXT == "TEXT"
SQLITE_TYPE_NUMERIC == "NUMERIC"
SQLITE_TYPE_INTEGER == "INTEGER"
SQLITE_TYPE_REAL == "REAL"
SQLITE_GENERAL_TYPE_OBJECT == "OBJECT"
SQLITE_GENERAL_TYPE_ARRAY == "ARRAY"
SQLITE_GENERAL_TYPE_NDARRAY == "NDARRAY"

\* what a call that throws a TypeError yields in place of a type
TypeError == "TypeError"

\* every descriptor is a string
GetBasicTypeText(tdxTypes) == SQLITE_TYPE_TEXT

\* converter.getBasicType(tdxTypes)
GetBasicType(tdxTypes) ==
  IF tdxTypes.t \in {"null", "undefined"} THEN TypeError
  ELSE
    LET base == OrEmpty(Element(tdxTypes, 0))
        derived == OrEmpty(Element(tdxTypes, 1))
        tdxBaseType ==
          IF base.t = "string" THEN Str(ToLowerCase(base.v)) ELSE base
        tdxDerivedType ==
          IF derived.t = "string" THEN Str(ToUpperCase(derived.v)) ELSE derived
    IN  IF tdxBaseType = Str(TDX_TYPE_STRING) THEN SQLITE_TYPE_TEXT
        ELSE IF tdxBaseType = Str(TDX_TYPE_BOOLEAN) THEN SQLITE_TYPE_NUMERIC
        ELSE IF tdxBaseType = Str(TDX_TYPE_DATE) THEN SQLITE_TYPE_NUMERIC
        ELSE IF tdxBaseType = Str(TDX_TYPE_NUMBER) THEN
          \* a number has no indexOf method
          IF tdxDerivedType.t # "string" THEN TypeError
          ELSE IF Includes(tdxDerivedType.v, TDX_TYPE_INT)
            THEN SQLITE_TYPE_INTEGER
          ELSE IF \E word \in TDX_TYPE_REAL : Includes(tdxDerivedType.v, word)
            THEN SQLITE_TYPE_REAL
          ELSE SQLITE_TYPE_NUMERIC
        ELSE SQLITE_TYPE_TEXT

\* the column of a converted schema
Column(key, type) == [key |-> key, type |-> type]

\* converter.convertSchema(schema): the columns in the order of the keys,
\* or the exception of getBasicType
ConvertSchema(schema) ==
  LET RECURSIVE ForEach(_, _)
      ForEach(i, sqlite) ==
        IF i > Len(schema) THEN [state |-> "returned", schema |-> sqlite]
        ELSE
          LET key == schema[i].key
              value == schema[i].value
          IN  IF value.t = "array"
              THEN ForEach(i + 1, Append(sqlite,
                     Column(key, SQLITE_GENERAL_TYPE_ARRAY)))
              ELSE IF value.t = "object"
              THEN IF HasOwnProperty(value, TDX_TYPE_NAME)
                   THEN LET type == GetBasicType(Property(value, TDX_TYPE_NAME))
                        IN  IF type = TypeError
                            THEN [state |-> "threw", schema |-> <<>>]
                            ELSE ForEach(i + 1, Append(sqlite, Column(key, type)))
                   ELSE ForEach(i + 1, Append(sqlite,
                          Column(key, SQLITE_GENERAL_TYPE_OBJECT)))
              ELSE ForEach(i + 1, sqlite)
  IN  ForEach(1, <<>>)

\* the type lists: none, a base type alone, a base and a derived type,
\* and what is not a list
BaseInputs ==
  {Str("string"), Str("String"), Str("boolean"), Str("date"),
   Str("number"), Str("NUMBER"), Str("foo"), Num(5)}

DerivedInputs ==
  {Str("int"), Str("Real"), Str("float"), Str("x"), Num(5)}

TypeLists ==
  {Arr(<<>>), Null, Str("number")}
    \cup {Arr(<<b>>) : b \in BaseInputs}
    \cup {Arr(<<b, d>>) : b \in BaseInputs, d \in DerivedInputs}

\* the column descriptors of a data schema
Descriptors ==
  {Obj(<<[key |-> TDX_TYPE_NAME, value |-> l]>>) : l \in TypeLists}
    \cup {Obj(<<>>), Arr(<<>>), Arr(<<Str("number")>>), Str("string"),
          Num(5), Null}

ColumnNames == <<"a", "b", "c", "d">>

\* an object, an array and a primitive value as descriptors
PlainDescriptors == {Obj(<<>>), Arr(<<>>), Str("string")}

\* the data schemas of at most MaxColumns columns: any descriptor in one
\* column, among columns of plain descriptors
TdxSchemas ==
  UNION {{[i \in 1..n |->
             [key |-> ColumnNames[i], value |-> IF i = k THEN d ELSE p[i]]] :
            d \in Descriptors, k \in 1..n, p \in [1..n -> PlainDescriptors]} :
           n \in 1..MaxColumns}

InitSchema ==
  /\ InitBatch
  /\ InitQuery
  /\ InitUpdate
  /\ InitDataset
  /\ InitInsert
  /\ InitCalls
  /\ tdxSchema \in TdxSchemas
  /\ sqliteSchema = [state |-> "none", schema |-> <<>>]
  /\ codec = [pc |-> "none"]

\* sqliteConverter.convertSchema(dataSchema)
CallConvertSchema ==
  /\ sqliteSchema.state = "none"
  /\ sqliteSchema' = ConvertSchema(tdxSchema)
  /\ UNCHANGED <<batchVars, queryVars, managerVars, tdxSchema, codec>>

NextSchema == CallConvertSchema

SpecSchema == InitSchema /\ [][NextSchema]_vars

\* ------------------------------------------------------- value codec
DoubleQuote == "\""
Backslash == "\\"
Digits == "0123456789"

\* an exception thrown in place of a returned value
Threw(name) == [t |-> "threw", v |-> name]

\* the decimal digits of a non-negative integer
RECURSIVE DigitsOf(_)
DigitsOf(n) ==
  IF n < 10 THEN SubSeq(Digits, n + 1, n + 1)
  ELSE DigitsOf(n \div 10) \o SubSeq(Digits, (n % 10) + 1, (n % 10) + 1)

NumberToString(n) == IF n < 0 THEN "-" \o DigitsOf(0 - n) ELSE DigitsOf(n)

\* s with every character equal to c replaced by the string to
RECURSIVE ReplaceAll(_, _, _)
ReplaceAll(s, c, to) ==
  IF s = "" THEN ""
  ELSE (IF Head(s) = c THEN to ELSE Head(s)) \o ReplaceAll(Tail(s), c, to)

\* the JSON text of a string: backslash and double quote are escaped
JSONString(s) ==
  DoubleQuote
    \o ReplaceAll(ReplaceAll(s, Backslash, Backslash \o Backslash),
                  DoubleQuote, Backslash \o DoubleQuote)
    \o DoubleQuote

\* JSON.stringify(value)
RECURSIVE JSONStringify(_)
JSONStringify(x) ==
  LET RECURSIVE Elements(_)
      Elements(i) ==
        IF i > Len(x.v) THEN ""
        ELSE (IF i > 1 THEN "," ELSE "") \o JSONStringify(x.v[i])
               \o Elements(i + 1)
      RECURSIVE Members(_)
      Members(i) ==
        IF i > Len(x.v) THEN ""
        ELSE (IF i > 1 THEN "," ELSE "") \o JSONString(x.v[i].key) \o ":"
               \o JSONStringify(x.v[i].value) \o Members(i + 1)
  IN  CASE x.t = "string" -> JSONString(x.v)
        [] x.t = "number" -> NumberToString(x.v)
        [] x.t = "array" -> "[" \o Elements(1) \o "]"
        [] x.t = "object" -> "{" \o Members(1) \o "}"
        [] OTHER -> "null"

\* a parse that failed, and one that read value and left rest
NoParse == [ok |-> FALSE, value |-> Null, rest |-> ""]
Parsed(value, rest) == [ok |-> TRUE, value |-> value, rest |-> rest]

StartsWith(s, prefix) ==
  Len(s) >= Len(prefix) /\ SubSeq(s, 1, Len(prefix)) = prefix

Drop(s, n) == SubSeq(s, n + 1, Len(s))

IsDigit(c) == \E i \in 1..Len(Digits) : SubSeq(Digits, i, i) = c
DigitValue(c) == (CHOOSE i \in 1..Len(Digits) : SubSeq(Digits, i, i) = c) - 1

\* the digits at the head of s, as a number
RECURSIVE ParseDigits(_, _)
ParseDigits(s, n) ==
  IF s # "" /\ IsDigit(Head(s))
  THEN ParseDigits(Tail(s), 10 * n + DigitValue(Head(s)))
  ELSE Parsed(n, s)

ParseNumber(s) ==
  LET negative == StartsWith(s, "-")
      body == IF negative THEN Tail(s) ELSE s
      digits == ParseDigits(body, 0)
  IN  IF body = "" \/ ~IsDigit(Head(body)) THEN NoParse
      ELSE Parsed(Num(IF negative THEN 0 - digits.value ELSE digits.value),
                  digits.rest)

\* the characters of a JSON string after its opening quote
RECURSIVE ParseChars(_, _)
ParseChars(s, read) ==
  IF s = "" THEN NoParse
  ELSE IF Head(s) = DoubleQuote THEN Parsed(read, Tail(s))
  ELSE IF Head(s) = Backslash
    THEN IF Len(s) >= 2 /\ SubSeq(s, 2, 2) \in {DoubleQuote, Backslash}
         THEN ParseChars(Drop(s, 2), read \o SubSeq(s, 2, 2))
         ELSE NoParse
  ELSE ParseChars(Tail(s), read \o Head(s))

\* one JSON value at the head of s: null, a number, a string, an array or
\* an object (the texts of this model hold no true, false or white space)
RECURSIVE ParseValue(_)
ParseValue(s) ==
  LET RECURSIVE ParseElements(_, _)
      ParseElements(r, read) ==
        LET e == ParseValue(r)
        IN  IF ~e.ok THEN NoParse
            ELSE IF StartsWith(e.rest, ",")
              THEN ParseElements(Tail(e.rest), Append(read, e.value))
            ELSE IF StartsWith(e.rest, "]")
              THEN Parsed(Arr(Append(read, e.value)), Tail(e.rest))
            ELSE NoParse
      RECURSIVE ParseMembers(_, _)
      ParseMembers(r, read) ==
        LET k == IF StartsWith(r, DoubleQuote) THEN ParseChars(Tail(r), "")
                 ELSE NoParse
            m == IF k.ok /\ StartsWith(k.rest, ":")
                 THEN ParseValue(Tail(k.rest)) ELSE NoParse
            member == [key |-> k.value, value |-> m.value]
        IN  IF ~m.ok THEN NoParse
            ELSE IF StartsWith(m.rest, ",")
              THEN ParseMembers(Tail(m.rest), Append(read, member))
            ELSE IF StartsWith(m.rest, "}")
              THEN Parsed(Obj(Append(read, member)), Tail(m.rest))
            ELSE NoParse
  IN  IF StartsWith(s, "null") THEN Parsed(Null, Drop(s, 4))
      ELSE IF StartsWith(s, DoubleQuote)
        THEN LET c == ParseChars(Tail(s), "")
             IN  IF c.ok THEN Parsed(Str(c.value), c.rest) ELSE NoParse
      ELSE IF StartsWith(s, "[]") THEN Parsed(Arr(<<>>), Drop(s, 2))
      ELSE IF StartsWith(s, "[") THEN ParseElements(Tail(s), <<>>)
      ELSE IF StartsWith(s, "{}") THEN Parsed(Obj(<<>>), Drop(s, 2))
      ELSE IF StartsWith(s, "{") THEN ParseMembers(Tail(s), <<>>)
      ELSE ParseNumber(s)

\* JSON.parse(text): the value, or a SyntaxError when the text is not one
\* JSON value; a text that is not a string is converted to one first
JSONParse(x) ==
  LET text == IF x.t = "string" THEN x.v ELSE JSONStringify(x)
      p == ParseValue(text)
  IN  IF p.ok /\ p.rest = "" THEN p.value ELSE Threw("SyntaxError")

\* `"${s.replace(/"/g, '""')}"`
Quoted(s) ==
  DoubleQuote \o ReplaceAll(s, DoubleQuote, DoubleQuote \o DoubleQuote)
    \o DoubleQuote

\* converter.convertToSqlite(type, value, {onlyStringify})
ConvertToSqlite(type, value, onlyStringify) ==
  IF type \in {SQLITE_GENERAL_TYPE_OBJECT, SQLITE_GENERAL_TYPE_ARRAY}
  THEN IF onlyStringify THEN Str(JSONStringify(value))
       ELSE Str(Quoted(JSONStringify(value)))
  ELSE IF type \in {SQLITE_TYPE_NUMERIC, SQLITE_TYPE_INTEGER, SQLITE_TYPE_REAL}
  THEN value
  ELSE IF type = SQLITE_TYPE_TEXT
  THEN IF onlyStringify THEN value
       ELSE IF value.t = "string" THEN Str(Quoted(value.v))
       ELSE Threw("TypeError")
  ELSE Null

\* the stored value is handed back as it is
ConvertToTdxUnparsed(type, value) == value

\* converter.convertToTdx(type, value)
ConvertToTdx(type, value) ==
  IF type \in {SQLITE_GENERAL_TYPE_OBJECT, SQLITE_GENERAL_TYPE_ARRAY}
  THEN JSONParse(value)
  ELSE IF type \in {SQLITE_TYPE_NUMERIC, SQLITE_TYPE_INTEGER, SQLITE_TYPE_REAL,
                    SQLITE_TYPE_TEXT}
  THEN value
  ELSE Null

\* the scalar values of the documents, and the arrays and objects of at
\* most MaxElements of them
Strings == {Str(""), Str("x"), Str(DoubleQuote), Str("a" \o Backslash)}
Numbers == {Num(0), Num(7), Num(0 - 12)}
Scalars == Strings \cup Numbers \cup {Null}

Arrays ==
  UNION {{Arr(e) : e \in [1..n -> Scalars]} : n \in 0..MaxElements}

ObjectKeys == <<"k", "l", "m", "n">>

Objects ==
  UNION {{Obj([i \in 1..n |-> [key |-> ObjectKeys[i], value |-> e[i]]]) :
            e \in [1..n -> Scalars \cup {Arr(<<Num(7)>>)}]} :
           n \in 0..MaxElements}

\* the values valid under a type
ValidValues(type) ==
  CASE type = SQLITE_TYPE_TEXT -> Strings
    [] type \in {SQLITE_TYPE_NUMERIC, SQLITE_TYPE_INTEGER, SQLITE_TYPE_REAL}
         -> Numbers
    [] type = SQLITE_GENERAL_TYPE_ARRAY -> Arrays
    [] type = SQLITE_GENERAL_TYPE_OBJECT -> Objects

CodecTypes ==
  {SQLITE_TYPE_TEXT, SQLITE_TYPE_NUMERIC, SQLITE_TYPE_INTEGER, SQLITE_TYPE_REAL,
   SQLITE_GENERAL_TYPE_ARRAY, SQLITE_GENERAL_TYPE_OBJECT}

InitCodec ==
  /\ InitBatch
  /\ InitQuery
  /\ InitUpdate
  /\ InitDataset
  /\ InitInsert
  /\ InitCalls
  /\ tdxSchema = <<>>
  /\ sqliteSchema = [state |-> "none", schema |-> <<>>]
  /\ \E type \in CodecTypes, onlyStringify \in BOOLEAN :
       \E value \in ValidValues(type) :
         codec = [pc |-> "value", type |-> type, value |-> value,
                  onlyStringify |-> onlyStringify]

\* sqliteConverter.convertToSqlite(type, value, options)
CallConvertToSqlite ==
  /\ codec.pc = "value"
  /\ codec' = [pc |-> "sqlite", type |-> codec.type, value |-> codec.value,
               onlyStringify |-> codec.onlyStringify,
               sqlite |-> ConvertToSqlite(codec.type, codec.value,
                                          codec.onlyStringify)]
  /\ UNCHANGED <<batchVars, queryVars, managerVars, tdxSchema, sqliteSchema>>

\* sqliteConverter.convertToTdx(type, value) of the converted value
CallConvertToTdx ==
  /\ codec.pc = "sqlite"
  /\ codec' = [pc |-> "tdx", type |-> codec.type, value |-> codec.value,
               onlyStringify |-> codec.onlyStringify, sqlite |-> codec.sqlite,
               tdx |-> ConvertToTdx(codec.type, codec.sqlite)]
  /\ UNCHANGED <<batchVars, queryVars, managerVars, tdxSchema, sqliteSchema>>

NextCodec ==
  \/ CallConvertToSqlite
  \/ CallConvertToTdx

SpecCodec == InitCodec /\ [][NextCodec]_vars

\* ------------------------------------------------------ query shaping
\* an optional number is the empty set (undefined) or a singleton
Val(x) == CHOOSE n \in x : TRUE

\* JavaScript truthiness of an optional number
Truthy(x) == x # {} /\ Val(x) # 0

\* getDataQuery: selectQuery.limit = queryLimit;
\* if (limit && (limit < queryLimit || limit < 0)) selectQuery.limit = limit
QueryLimit(limit) ==
  IF Truthy(limit) /\ (Val(limit) < SQLITE_QUERY_LIMIT \/ Val(limit) < 0)
  THEN limit
  ELSE {SQLITE_QUERY_LIMIT}

\* manager.getDatasetData: the limit is left unset when limit <= 0
DatasetDataLimit(limit) ==
  IF limit = {} THEN {SQLITE_QUERY_LIMIT}
  ELSE IF Val(limit) > SQLITE_QUERY_LIMIT THEN {SQLITE_QUERY_LIMIT}
  ELSE IF Val(limit) > 0 /\ Val(limit) <= SQLITE_QUERY_LIMIT THEN limit
  ELSE {}

SQLITE_SORT_TYPE_ASC == "ASC"
SQLITE_SORT_TYPE_DESC == "DESC"

\* options.skip || 0, and if (skip) selectQuery.offset = skip: the offset is
\* left unset (the empty set) when skip is undefined or 0
OffsetAlways(skip) == skip
Offset(skip) == IF Truthy(skip) THEN skip ELSE {}

\* the loop over options.sort: an entry is kept when its value === 1
\* (ascending) or === -1 (descending), in the order of the keys of sort
SortQueryLoose(sort) ==
  [i \in 1..Len(sort) |->
     [key |-> sort[i].key,
      value |-> IF sort[i].value = Num(1) THEN SQLITE_SORT_TYPE_ASC
                ELSE SQLITE_SORT_TYPE_DESC]]
SortQuery(sort) ==
  LET kept == SelectSeq(sort, LAMBDA e : e.value = Num(1) \/ e.value = Num(0 - 1))
  IN  [i \in 1..Len(kept) |->
         [key |-> kept[i].key,
          value |-> IF kept[i].value = Num(1) THEN SQLITE_SORT_TYPE_ASC
                    ELSE SQLITE_SORT_TYPE_DESC]]

\* if (!_.isEmpty(sortQuery)) selectQuery.order = sortQuery: the order is
\* left unset (the empty set) when no entry was kept
Order(sort) == IF SortQuery(sort) # <<>> THEN {SortQuery(sort)} ELSE {}

\* the values of options.skip the callers pass
SkipInputs == {{}, {0}, {1}, {0 - 1}}

\* the values of the entries of options.sort the callers pass
SortValues == {Num(1), Num(0 - 1), Num(0), Num(2), Str("1")}

\* the objects options.sort the callers pass: no entry (also for a missing
\* sort), or entries for the keys a and b in either order
SortKeys == {"a", "b"}
SortInputs ==
  {<<>>}
    \cup {<<[key |-> k, value |-> v]>> : k \in SortKeys, v \in SortValues}
    \cup {<<[key |-> k[1], value |-> v[1]], [key |-> k[2], value |-> v[2]]>> :
            k \in {<<"a", "b">>, <<"b", "a">>},
            v \in SortValues \X SortValues}

\* the values of options.limit the callers pass
LimitInputs ==
  {{}} \cup {{n} : n \in (0 - MaxOver)..MaxOver}
       \cup {{n} : n \in (SQLITE_QUERY_LIMIT - MaxOver)..(SQLITE_QUERY_LIMIT + MaxOver)}
       \cup {{SQLITE_QUERY_LIMIT + 500}}

\* the general schemas a connection may hold: no dataset, or the columns
\* a, b, c in this order, of type TEXT but for at most one column of a
\* compound type
SchemaColumns == <<"a", "b", "c">>

QueryTypes ==
  {SQLITE_TYPE_TEXT, SQLITE_GENERAL_TYPE_OBJECT, SQLITE_GENERAL_TYPE_ARRAY,
   SQLITE_GENERAL_TYPE_NDARRAY}

Schemas ==
  UNION {{[i \in 1..n |-> Column(SchemaColumns[i], type[i])] :
            type \in {t \in [1..n -> QueryTypes] :
                        \A i, j \in 1..n :
                          t[i] # SQLITE_TYPE_TEXT /\ t[j] # SQLITE_TYPE_TEXT
                            => i = j}} :
           n \in 0..Len(SchemaColumns)}

\* the names every object inherits from Object.prototype
InheritedKeys == {"toString"}

\* the keys of a projection: columns, a name no schema has, and a name
\* every object inherits
ProjectionKeys == {"a", "b", "z", "toString"}

\* the projections of at most MaxProjection keys, in the order of the keys
RECURSIVE ProjectionsOf(_)
ProjectionsOf(n) ==
  IF n = 0 THEN {<<>>}
  ELSE LET shorter == ProjectionsOf(n - 1)
       IN  shorter \cup
           {Append(p, [key |-> key, value |-> value]) :
              p \in {q \in shorter : Len(q) = n - 1},
              key \in ProjectionKeys, value \in {0, 1}}

Projections ==
  {p \in ProjectionsOf(MaxProjection) :
     \A i, j \in 1..Len(p) : i # j => p[i].key # p[j].key}

\* Object.keys(schema)
SchemaKeys(schema) == [i \in 1..Len(schema) |-> schema[i].key]

\* key in schema: an own key of the object or an inherited one
KeyIn(key, schema) ==
  \/ \E i \in 1..Len(schema) : schema[i].key = key
  \/ key \in InheritedKeys

\* key in schema, own keys only
OwnKeyIn(key, schema) == \E i \in 1..Len(schema) : schema[i].key = key

\* schema[key]: the type of a column; "" stands for a value that is no type
SchemaType(schema, key) ==
  IF \E i \in 1..Len(schema) : schema[i].key = key
  THEN schema[CHOOSE i \in 1..Len(schema) : schema[i].key = key].type
  ELSE ""

\* keys.splice(keys.indexOf(key), 1)
Splice(keys, key) == SelectSeq(keys, LAMBDA k : k # key)

\* the forEach over the projection: included and excluded columns
ProjectionColumns(schema, projection) ==
  LET RECURSIVE ForEach(_, _, _)
      ForEach(i, included, excluded) ==
        IF i > Len(projection)
        THEN [includedColumns |-> included, excludedColumns |-> excluded]
        ELSE IF KeyIn(projection[i].key, schema)
          THEN IF projection[i].value # 0
               THEN ForEach(i + 1, Append(included, projection[i].key), excluded)
               ELSE ForEach(i + 1, included, Splice(excluded, projection[i].key))
          ELSE ForEach(i + 1, included, excluded)
  IN  ForEach(1, <<>>, SchemaKeys(schema))

\* selectQuery.columns after the projection: <<>> when it is left unset
SelectColumns(p) ==
  IF Len(p.includedColumns) # 0 THEN p.includedColumns
  ELSE IF Len(p.excludedColumns) # 0 THEN p.excludedColumns
  ELSE <<>>

\* builder.sql(selectQuery): a select without columns selects "*"
BuilderColumns(columns) == IF columns = <<>> THEN <<"*">> ELSE columns

\* includedColumns[0] || ""
DistinctKey(p) ==
  IF Len(p.includedColumns) # 0 THEN p.includedColumns[1] ELSE ""

\* distinct over any compound column returns early
ReturnsEarlyOnCompound(distinct, columns, p, schema) ==
  \/ columns = <<"*">>
  \/ distinct /\ Len(p.includedColumns) # 1
  \/ distinct /\ SchemaType(schema, DistinctKey(p)) \in
       {SQLITE_GENERAL_TYPE_NDARRAY, SQLITE_GENERAL_TYPE_OBJECT,
        SQLITE_GENERAL_TYPE_ARRAY}

\* getDataQuery: the three early returns before the read
ReturnsEarly(distinct, columns, p, schema) ==
  \/ columns = <<"*">>
  \/ distinct /\ Len(p.includedColumns) # 1
  \/ distinct /\ SchemaType(schema, DistinctKey(p)) = SQLITE_GENERAL_TYPE_NDARRAY

\* the document value written to column key of row r
DocValue(type, key, r) ==
  CASE type = SQLITE_TYPE_TEXT -> Str(key \o NumberToString(r))
    [] type = SQLITE_GENERAL_TYPE_OBJECT -> Obj(<<[key |-> key, value |-> Num(r)]>>)
    [] type = SQLITE_GENERAL_TYPE_ARRAY -> Arr(<<Str(key), Num(r)>>)
    [] OTHER -> Null

\* the rows db.all hands back for the columns: row r holds the stored
\* value of each selected column
EngineRows(schema, columns, n) ==
  [r \in 1..n |->
     [i \in 1..Len(columns) |->
        [key |-> columns[i],
         value |-> ConvertToSqlite(SchemaType(schema, columns[i]),
                     DocValue(SchemaType(schema, columns[i]), columns[i], r),
                     TRUE)]]]

\* _.includes(schema, type)
IncludesType(schema, type) == \E i \in 1..Len(schema) : schema[i].type = type

\* every value of the rows converted by convertToTdx
ConvertRows(schema, rows) ==
  [r \in 1..Len(rows) |->
     [i \in 1..Len(rows[r]) |->
        [key |-> rows[r][i].key,
         value |-> ConvertToTdx(SchemaType(schema, rows[r][i].key),
                                rows[r][i].value)]]]

\* row[key]
RowValue(row, key) ==
  IF \E i \in 1..Len(row) : row[i].key = key
  THEN row[CHOOSE i \in 1..Len(row) : row[i].key = key].value
  ELSE Undefined

\* sqliteNdarray.readNdarrayMany(db, data, ndarrayKeys): the values of the
\* ndarray columns are replaced by the arrays read from their files
ReadNdarrayMany(schema, rows) ==
  [r \in 1..Len(rows) |->
     [i \in 1..Len(rows[r]) |->
        IF SchemaType(schema, rows[r][i].key) = SQLITE_GENERAL_TYPE_NDARRAY
        THEN [key |-> rows[r][i].key, value |-> [t |-> "ndarray", v |-> r]]
        ELSE rows[r][i]]]

\* a row count the limit of the query allows
WithinLimit(n, limit) ==
  IF limit = {} THEN TRUE
  ELSE IF Val(limit) < 0 THEN TRUE
  ELSE n <= Val(limit)

NoCall ==
  [fn |-> "none", pc |-> "none", distinct |-> FALSE, limit |-> {},
   skip |-> {}, sort |-> <<>>,
   projection |-> <<>>, schema |-> <<>>, includedColumns |-> <<>>]

\* getDataQuery(db, distinct, filter, projection, options) up to the await
\* of the general schema
GetDataQuery(distinct, projection, limit, skip, sort) ==
  /\ qCall' = [NoCall EXCEPT !.fn = "getDataQuery", !.pc = "schema",
                 !.distinct = distinct, !.limit = limit,
                 !.skip = skip, !.sort = sort,
                 !.projection = projection]
  /\ selectQuery' = [limit |-> QueryLimit(limit), offset |-> Offset(skip),
                     order |-> Order(sort), columns |-> <<>>]
  /\ UNCHANGED <<reads, qResult, batchVars, convVars, managerVars>>

\* getData / getDatasetData -> getDataQuery(db, false, filter, projection, options)
GetData ==
  /\ qCall.pc = "none"
  /\ \/ \E limit \in LimitInputs, projection \in Projections :
          GetDataQuery(FALSE, projection, limit, {}, <<>>)
     \/ \E skip \in SkipInputs, sort \in SortInputs :
          GetDataQuery(FALSE, <<>>, {}, skip, sort)

\* getDistinct(db, key, filter) -> getDataQuery(db, true, filter, projection, {})
GetDistinct ==
  /\ qCall.pc = "none"
  /\ \E key \in ProjectionKeys \cup {""} :
       GetDataQuery(TRUE,
                    IF key # "" THEN <<[key |-> key, value |-> 1]>> ELSE <<>>,
                    {}, {}, <<>>)

\* getDataQuery from the general schema to the read: the projection, the
\* early returns and db.allAsync
QueryColumns ==
  /\ qCall.fn = "getDataQuery"
  /\ qCall.pc = "schema"
  /\ \E schema \in Schemas :
       LET p == ProjectionColumns(schema, qCall.projection)
           columns == BuilderColumns(SelectColumns(p))
           early == ReturnsEarly(qCall.distinct, columns, p, schema)
       IN  /\ selectQuery' = [selectQuery EXCEPT !.columns = columns]
           /\ qCall' = [qCall EXCEPT !.schema = schema,
                          !.includedColumns = p.includedColumns,
                          !.pc = IF early THEN "returned" ELSE "read"]
           /\ reads' = IF early THEN reads
                       ELSE Append(reads, [columns |-> columns,
                                           distinct |-> qCall.distinct])
           /\ qResult' = IF early THEN [state |-> "resolved", data |-> <<>>]
                         ELSE qResult
  /\ UNCHANGED <<batchVars, convVars, managerVars>>

\* getDataQuery after db.allAsync: the rows are converted and returned, or
\* the error of the engine is thrown
QueryRows ==
  /\ qCall.fn = "getDataQuery"
  /\ qCall.pc = "read"
  /\ LET schema == qCall.schema
         distinctKey == IF Len(qCall.includedColumns) # 0
                        THEN qCall.includedColumns[1] ELSE ""
         compound == \/ IncludesType(schema, SQLITE_GENERAL_TYPE_NDARRAY)
                     \/ IncludesType(schema, SQLITE_GENERAL_TYPE_OBJECT)
                     \/ IncludesType(schema, SQLITE_GENERAL_TYPE_ARRAY)
     IN  IF \E i \in 1..Len(selectQuery.columns) :
               ~OwnKeyIn(selectQuery.columns[i], schema)
         THEN qResult' = [state |-> "rejected", data |-> <<>>]
         ELSE \E n \in 0..MaxReadRows :
                /\ WithinLimit(n, selectQuery.limit)
                /\ LET rows == EngineRows(schema, selectQuery.columns, n)
                       converted == IF compound THEN ConvertRows(schema, rows)
                                    ELSE rows
                   IN  qResult' =
                         [state |-> "resolved",
                          data |-> IF qCall.distinct
                                   THEN [r \in 1..n |->
                                           RowValue(converted[r], distinctKey)]
                                   ELSE ReadNdarrayMany(schema, converted)]
  /\ qCall' = [qCall EXCEPT !.pc = "returned"]
  /\ UNCHANGED <<selectQuery, reads, batchVars, convVars, managerVars>>

\* manager.getDatasetData(db, filter, projection, options) up to the read
ManagerGetDatasetData ==
  /\ qCall.pc = "none"
  /\ \E limit \in LimitInputs, projection \in Projections, schema \in Schemas :
       LET p == ProjectionColumns(schema, projection)
           columns == BuilderColumns(SelectColumns(p))
           early == columns = <<"*">>
       IN  /\ qCall' = [NoCall EXCEPT !.fn = "getDatasetData",
                          !.limit = limit, !.projection = projection,
                          !.schema = schema,
                          !.includedColumns = p.includedColumns,
                          !.pc = IF early THEN "returned" ELSE "read"]
           /\ selectQuery' = [limit |-> DatasetDataLimit(limit),
                              offset |-> Offset({}), order |-> Order(<<>>),
                              columns |-> columns]
           /\ reads' = IF early THEN reads
                       ELSE Append(reads, [columns |-> columns,
                                           distinct |-> FALSE])
           /\ qResult' = IF early THEN [state |-> "resolved", data |-> <<>>]
                         ELSE qResult
  /\ UNCHANGED <<batchVars, convVars, managerVars>>

\* manager.getDatasetData: the then of db.allAsync; the third argument of
\* _.includes is the index to search from, so only OBJECT is looked for
ManagerRows ==
  /\ qCall.fn = "getDatasetData"
  /\ qCall.pc = "read"
  /\ LET schema == qCall.schema
     IN  IF \E i \in 1..Len(selectQuery.columns) :
               ~OwnKeyIn(selectQuery.columns[i], schema)
         THEN qResult' = [state |-> "rejected", data |-> <<>>]
         ELSE \E n \in 0..MaxReadRows :
                /\ WithinLimit(n, selectQuery.limit)
                /\ LET rows == EngineRows(schema, selectQuery.columns, n)
                   IN  qResult' =
                         [state |-> "resolved",
                          data |-> IF IncludesType(schema, SQLITE_GENERAL_TYPE_OBJECT)
                                   THEN ConvertRows(schema, rows)
                                   ELSE rows]
  /\ qCall' = [qCall EXCEPT !.pc = "returned"]
  /\ UNCHANGED <<selectQuery, reads, batchVars, convVars, managerVars>>

NextQuery ==
  \/ GetData
  \/ GetDistinct
  \/ QueryColumns
  \/ QueryRows
  \/ ManagerGetDatasetData
  \/ ManagerRows

SpecQuery == Init /\ [][NextQuery]_vars

\* -------------------------------------------------- updateDataByQuery
\* the values of the update argument: missing, empty, and objects that set
\* a, b or both
Updates ==
  {Undefined, Null, Obj(<<>>)}
    \cup {Obj(<<[key |-> k, value |-> Num(v)]>>) : k \in {"a", "b"}, v \in {1, 2}}
    \cup {Obj(<<[key |-> "a", value |-> Num(2)], [key |-> "b", value |-> Num(1)]>>)}

\* the filters: every row, or the rows of a given a
Filters == {{}, {1}, {2}}

\* the data tables of at most MaxTableRows rows
Tables ==
  UNION {[1..n -> [a : {1, 2}, b : {0}]] : n \in 0..MaxTableRows}

\* update || {}
OrEmptyObject(x) == IF Falsy(x) THEN Obj(<<>>) ELSE x

\* no update object is taken for empty
IsEmptyNever(x) == FALSE

\* _.isEmpty(value): no own keys, no elements, or not a collection at all
IsEmpty(x) ==
  IF x.t \in {"object", "array", "string"} THEN Len(x.v) = 0 ELSE TRUE

\* the rows a filter selects
Matches(row, filter) == filter = {} \/ row.a \in filter

\* the row after UPDATE ... SET of the keys of the update object
Updated(row, update) ==
  [k \in {"a", "b"} |->
     IF HasOwnProperty(update, k) THEN Property(update, k).v ELSE row[k]]

InitUpdateTable ==
  /\ InitBatch
  /\ InitQuery
  /\ InitConvert
  /\ InitDataset
  /\ InitInsert
  /\ InitCalls
  /\ upd = [pc |-> "none"]
  /\ statements = <<>>
  /\ table \in Tables

\* updateDataByQuery(db, query, update): the early return, or the count
\* and the update handed to the engine inside db.serialize
UpdateDataByQuery ==
  /\ upd.pc = "none"
  /\ \E query \in Filters, update \in Updates :
       IF IsEmpty(OrEmptyObject(update))
       THEN /\ upd' = [pc |-> "done", query |-> query, update |-> update,
                       before |-> table, row |-> {},
                       promise |-> [state |-> "resolved", count |-> {0}]]
            /\ UNCHANGED statements
       ELSE /\ upd' = [pc |-> "count", query |-> query, update |-> update,
                       before |-> table, row |-> {},
                       promise |-> [state |-> "pending", count |-> {}]]
            /\ statements' = statements \o <<"SELECT Count(*)", "UPDATE">>
  /\ UNCHANGED <<table, batchVars, queryVars, convVars, datasetVars,
                 entryVars>>

\* the callback of db.get: the row with the count, or the rejection
UpdateCountCallback ==
  /\ upd.pc = "count"
  /\ \E ok \in BOOLEAN :
       upd' = [upd EXCEPT
                 !.pc = "run",
                 !.row = IF ok
                         THEN {Cardinality({i \in 1..Len(table) :
                                              Matches(table[i], upd.query)})}
                         ELSE @,
                 !.promise = IF ok THEN @
                             ELSE [state |-> "rejected", count |-> {}]]
  /\ UNCHANGED <<statements, table, batchVars, queryVars, convVars, datasetVars,
                 entryVars>>

\* the callback of db.run: the rows are updated and the promise is resolved
\* with the counted row, or rejected; a settled promise stays as it is
UpdateRunCallback ==
  /\ upd.pc = "run"
  /\ \E ok \in BOOLEAN :
       /\ table' = IF ok
                   THEN [i \in 1..Len(table) |->
                           IF Matches(table[i], upd.query)
                           THEN Updated(table[i], OrEmptyObject(upd.update))
                           ELSE table[i]]
                   ELSE table
       /\ upd' = [upd EXCEPT
                    !.pc = "done",
                    !.promise = IF @.state # "pending" THEN @
                                ELSE IF ok
                                THEN [state |-> "resolved", count |-> upd.row]
                                ELSE [state |-> "rejected", count |-> {}]]
  /\ UNCHANGED <<statements, batchVars, queryVars, convVars, datasetVars,
                 entryVars>>

NextUpdate ==
  \/ UpdateDataByQuery
  \/ UpdateCountCallback
  \/ UpdateRunCallback

SpecUpdate == InitUpdateTable /\ [][NextUpdate]_vars

\* ------------------------------------------- createDataset and the schema cache

\* a column descriptor of a base type
TdxType(base) == Obj(<<[key |-> TDX_TYPE_NAME, value |-> Arr(<<Str(base)>>)]>>)

\* the dataSchema arguments: missing, empty, one column, two columns in
\* both orders of their keys
DataSchemas ==
  {Undefined, Obj(<<>>),
   Obj(<<[key |-> "a", value |-> TdxType("number")]>>),
   Obj(<<[key |-> "a", value |-> TdxType("number")],
         [key |-> "b", value |-> TdxType("string")]>>),
   Obj(<<[key |-> "b", value |-> TdxType("string")],
         [key |-> "a", value |-> TdxType("number")]>>)}

\* one entry of a unique index
IndexEntry(order, column) == Obj(<<[key |-> order, value |-> Str(column)]>>)

\* the uniqueIndex arguments: missing, empty, well formed, and entries with
\* two keys, no key, an unknown order and an order that Object.prototype
\* defines
UniqueIndexes ==
  {Undefined, Arr(<<>>),
   Arr(<<IndexEntry("asc", "a")>>),
   Arr(<<IndexEntry("asc", "a"), IndexEntry("desc", "b")>>),
   Arr(<<Obj(<<[key |-> "asc", value |-> Str("a")],
               [key |-> "desc", value |-> Str("b")]>>)>>),
   Arr(<<Obj(<<>>)>>),
   Arr(<<IndexEntry("asc", "a"), IndexEntry("up", "b")>>),
   Arr(<<IndexEntry("toString", "a")>>)}

\* the id arguments, and the id shortid generates
DatasetIds == {Undefined, Str("x")}
GeneratedId == Str("g")

\* x || y
Or(x, y) == IF Falsy(x) THEN y ELSE x

\* the options after the defaults of createDataset
Normalised(id, dataSchema, uniqueIndex) ==
  [id |-> Or(id, GeneratedId),
   schema |-> [dataSchema |-> Or(dataSchema, Obj(<<>>)),
               uniqueIndex |-> Or(uniqueIndex, Arr(<<>>))]]

\* every pair of schemas is taken for equal
IsEqualAlways(x, y) == TRUE

\* _.isEqual on two schemas: the keys of an object compare in any order,
\* the elements of an array in their order
IsEqual(x, y) ==
  LET ObjectEqual(f, g) ==
        /\ Len(f.v) = Len(g.v)
        /\ \A i \in 1..Len(f.v) :
             /\ HasOwnProperty(g, f.v[i].key)
             /\ Property(g, f.v[i].key) = f.v[i].value
  IN  /\ ObjectEqual(x.dataSchema, y.dataSchema)
      /\ Len(x.uniqueIndex.v) = Len(y.uniqueIndex.v)
      /\ \A i \in 1..Len(x.uniqueIndex.v) :
           ObjectEqual(x.uniqueIndex.v[i], y.uniqueIndex.v[i])

\* converter.mapSchema(types): the compound types are stored as text
MapSchema(types) ==
  [i \in 1..Len(types) |->
     IF types[i].type \in {SQLITE_GENERAL_TYPE_OBJECT, SQLITE_GENERAL_TYPE_ARRAY}
     THEN Column(types[i].key, SQLITE_TYPE_TEXT)
     ELSE types[i]]

\* sqliteSortTypes[sortOrder]: undefined for a name that neither the object
\* nor Object.prototype defines
SortType(sortOrder) ==
  IF sortOrder = "asc" THEN {SQLITE_SORT_TYPE_ASC}
  ELSE IF sortOrder = "desc" THEN {SQLITE_SORT_TYPE_DESC}
  ELSE IF sortOrder \in InheritedKeys THEN {"function"}
  ELSE {}

\* the callback of uniqueIndex.map throws on some entry
IndexThrows(uniqueIndex) ==
  \E i \in 1..Len(uniqueIndex.v) :
    \/ Len(uniqueIndex.v[i].v) # 1
    \/ SortType(uniqueIndex.v[i].v[1].key) = {}

\* the entries of the primary key definition: column and sort type
PrimaryKey(uniqueIndex) ==
  [i \in 1..Len(uniqueIndex.v) |->
     [column |-> uniqueIndex.v[i].v[1].value.v,
      sortType |-> Val(SortType(uniqueIndex.v[i].v[1].key))]]

\* the engine accepts CREATE UNIQUE INDEX on columns of the table with a
\* sort type of SQL
IndexAccepted(primaryKey, columns) ==
  \A i \in 1..Len(primaryKey) :
    /\ primaryKey[i].sortType \in {SQLITE_SORT_TYPE_ASC, SQLITE_SORT_TYPE_DESC}
    /\ \E j \in 1..Len(columns) : columns[j].key = primaryKey[i].column

\* the outcome of a call
Resolves(value) == [state |-> "resolved", value |-> value]
Rejects(error) == [state |-> "rejected", value |-> error]

\* the end of a createDataset call
CreateDone(outcome) == [create EXCEPT !.pc = "done", !.outcome = outcome]

\* createDataset(db, options) up to its first await: the defaults and the
\* early throw on an index without a schema
CreateDataset ==
  /\ create.pc = "none"
  /\ \E id \in DatasetIds, dataSchema \in DataSchemas,
        uniqueIndex \in UniqueIndexes :
       LET options == Normalised(id, dataSchema, uniqueIndex)
           call == [pc |-> "check", options |-> options,
                    before |-> [info |-> info, dataTable |-> dataTable],
                    found |-> FALSE, writes |-> 0,
                    outcome |-> [state |-> "pending", value |-> ""]]
       IN  create' =
             IF /\ IsEmpty(options.schema.dataSchema)
                /\ Len(options.schema.uniqueIndex.v) # 0
             THEN [call EXCEPT !.pc = "done",
                     !.outcome = Rejects("index doesn't match schema")]
             ELSE call
  /\ UNCHANGED <<info, dataTable, conn, reader>>
  /\ UNCHANGED <<batchVars, queryVars, convVars, updateVars, entryVars>>

\* checkInfoTable answers
CheckInfoTable ==
  /\ create.pc = "check"
  /\ create' =
       IF ~conn.open THEN CreateDone(Rejects("closed"))
       ELSE [create EXCEPT !.pc = IF info.exists THEN "compare" ELSE "createInfo",
                           !.found = info.exists]
  /\ UNCHANGED <<info, dataTable, conn, reader>>
  /\ UNCHANGED <<batchVars, queryVars, convVars, updateVars, entryVars>>

\* getInfoKeys(db, ["id", "schema"]) answers: the stored id is kept and the
\* schemas are compared
CompareSchema ==
  /\ create.pc = "compare"
  /\ create' =
       IF info.id = {} \/ info.schema = {}
       THEN CreateDone(Rejects(TypeError))
       ELSE IF ~IsEqual(Val(info.schema), create.options.schema)
       THEN [CreateDone(Rejects("schemas don't coincide"))
               EXCEPT !.options.id = Val(info.id)]
       ELSE [CreateDone(Resolves(Val(info.id)))
               EXCEPT !.options.id = Val(info.id)]
  /\ UNCHANGED <<info, dataTable, conn, reader>>
  /\ UNCHANGED <<batchVars, queryVars, convVars, updateVars, entryVars>>

\* createInfoTable is done and setInfoKeys is called
CreateInfoTable ==
  /\ create.pc = "createInfo"
  /\ info' = [info EXCEPT !.exists = TRUE]
  /\ create' = [create EXCEPT !.pc = "setInfo", !.writes = @ + 1]
  /\ UNCHANGED <<dataTable, conn, reader>>
  /\ UNCHANGED <<batchVars, queryVars, convVars, updateVars, entryVars>>

\* setInfoKeys is done and getGeneralSchema is called: the cached schema,
\* or the read of the info table
SetInfoKeys ==
  /\ create.pc = "setInfo"
  /\ info' = [info EXCEPT !.id = {create.options.id},
                          !.schema = {create.options.schema}]
  /\ create' = [create EXCEPT !.pc = "schema", !.writes = @ + 1]
  /\ UNCHANGED <<dataTable, conn, reader>>
  /\ UNCHANGED <<batchVars, queryVars, convVars, updateVars, entryVars>>

\* the state of the connection after getGeneralSchema has read the info
\* table: the converted schema is assigned when the dataset exists
Loaded(converted) ==
  IF info.schema = {} \/ converted.state = "threw" THEN conn
  ELSE [conn EXCEPT !.generalSchema = {converted.schema}, !.loads = @ + 1]

\* getGeneralSchema answers inside createDataset; the index is validated,
\* and CREATE TABLE is run when the table has a column
CreateGeneralSchema ==
  /\ create.pc = "schema"
  /\ LET converted ==
           IF conn.generalSchema # {}
           THEN [state |-> "returned", schema |-> Val(conn.generalSchema)]
           ELSE IF info.schema = {}
           THEN [state |-> "returned", schema |-> <<>>]
           ELSE ConvertSchema(Val(info.schema).dataSchema.v)
         uniqueIndex == create.options.schema.uniqueIndex
     IN  /\ conn' = IF conn.generalSchema # {} THEN conn ELSE Loaded(converted)
         /\ create' =
              IF converted.state = "threw" THEN CreateDone(Rejects(TypeError))
              ELSE IF IndexThrows(uniqueIndex)
              THEN CreateDone(Rejects("uniqueIndex"))
              ELSE IF Len(MapSchema(converted.schema)) # 0
              THEN [create EXCEPT !.pc = "createTable", !.writes = @ + 1]
              ELSE CreateDone(Resolves(create.options.id))
  /\ UNCHANGED <<info, dataTable, reader>>
  /\ UNCHANGED <<batchVars, queryVars, convVars, updateVars, entryVars>>

\* CREATE TABLE is done; CREATE UNIQUE INDEX is run when the index has an
\* entry
CreateTable ==
  /\ create.pc = "createTable"
  /\ dataTable' = [dataTable EXCEPT
                     !.exists = TRUE,
                     !.columns = MapSchema(Val(conn.generalSchema))]
  /\ create' =
       IF Len(create.options.schema.uniqueIndex.v) # 0
       THEN [create EXCEPT !.pc = "createIndex", !.writes = @ + 1]
       ELSE CreateDone(Resolves(create.options.id))
  /\ UNCHANGED <<info, conn, reader>>
  /\ UNCHANGED <<batchVars, queryVars, convVars, updateVars, entryVars>>

\* CREATE UNIQUE INDEX is done or refused
CreateIndex ==
  /\ create.pc = "createIndex"
  /\ LET primaryKey == PrimaryKey(create.options.schema.uniqueIndex)
     IN  IF IndexAccepted(primaryKey, dataTable.columns)
         THEN /\ dataTable' = [dataTable EXCEPT !.index = {primaryKey}]
              /\ create' = CreateDone(Resolves(create.options.id))
         ELSE /\ dataTable' = dataTable
              /\ create' = CreateDone(Rejects("SQLITE_ERROR"))
  /\ UNCHANGED <<info, conn, reader>>
  /\ UNCHANGED <<batchVars, queryVars, convVars, updateVars, entryVars>>

\* the caller has the outcome of createDataset
CreateReturn ==
  /\ create.pc = "done"
  /\ create' = [pc |-> "none"]
  /\ UNCHANGED <<info, dataTable, conn, reader>>
  /\ UNCHANGED <<batchVars, queryVars, convVars, updateVars, entryVars>>

\* getGeneralSchema(db) up to its await: the cached schema when there is one
GetGeneralSchema ==
  /\ reader.pc = "none"
  /\ reader' =
       IF conn.generalSchema # {}
       THEN [pc |-> "done", open |-> conn.open, read |-> FALSE,
             outcome |-> Resolves(Val(conn.generalSchema))]
       ELSE [pc |-> "read", open |-> conn.open, read |-> TRUE,
             outcome |-> [state |-> "pending", value |-> <<>>]]
  /\ UNCHANGED <<info, dataTable, conn, create>>
  /\ UNCHANGED <<batchVars, queryVars, convVars, updateVars, entryVars>>

\* getInfoKeys(db, ["schema"]) answers getGeneralSchema: the schema is
\* converted and cached when the dataset exists
GeneralSchemaLoaded ==
  /\ reader.pc = "read"
  /\ LET converted ==
           IF info.schema = {} THEN [state |-> "returned", schema |-> <<>>]
           ELSE ConvertSchema(Val(info.schema).dataSchema.v)
     IN  IF ~conn.open
         THEN /\ reader' = [reader EXCEPT !.pc = "done",
                                          !.outcome = Rejects("closed")]
              /\ conn' = conn
         ELSE /\ reader' =
                   [reader EXCEPT
                      !.pc = "done",
                      !.outcome = IF converted.state = "threw"
                                  THEN Rejects(TypeError)
                                  ELSE Resolves(converted.schema)]
              /\ conn' = Loaded(converted)
  /\ UNCHANGED <<info, dataTable, create>>
  /\ UNCHANGED <<batchVars, queryVars, convVars, updateVars, entryVars>>

\* the caller has the outcome of getGeneralSchema
GeneralSchemaReturn ==
  /\ reader.pc = "done"
  /\ reader' = [pc |-> "none"]
  /\ UNCHANGED <<info, dataTable, conn, create>>
  /\ UNCHANGED <<batchVars, queryVars, convVars, updateVars, entryVars>>

\* closeDatabase(db), called when no call is waiting for the engine: the
\* connection is closed and the db object keeps its properties
CloseDatabase ==
  /\ conn.open
  /\ create.pc \in {"none", "done"}
  /\ reader.pc \in {"none", "done"}
  /\ conn' = [conn EXCEPT !.open = FALSE]
  /\ UNCHANGED <<info, dataTable, create, reader>>
  /\ UNCHANGED <<batchVars, queryVars, convVars, updateVars, entryVars>>

\* openDatabase on the same file, once the calls on the closed connection
\* have returned: a new db object
OpenDatabase ==
  /\ ~conn.open
  /\ create.pc = "none"
  /\ reader.pc = "none"
  /\ conn' = [open |-> TRUE, generalSchema |-> {}, loads |-> 0]
  /\ UNCHANGED <<info, dataTable, create, reader>>
  /\ UNCHANGED <<batchVars, queryVars, convVars, updateVars, entryVars>>

NextDataset ==
  \/ CreateDataset
  \/ CheckInfoTable
  \/ CompareSchema
  \/ CreateInfoTable
  \/ SetInfoKeys
  \/ CreateGeneralSchema
  \/ CreateTable
  \/ CreateIndex
  \/ CreateReturn
  \/ GetGeneralSchema
  \/ GeneralSchemaLoaded
  \/ GeneralSchemaReturn
  \/ CloseDatabase
  \/ OpenDatabase

SpecDataset == Init /\ [][NextDataset]_vars

\* ------------------------------------------------------- executeInsert
\* the operations a caller queues on the prepared statement
PrepareOp == [op |-> "prepare", row |-> 0, cb |-> TRUE]
RunOp(i) == [op |-> "run", row |-> i, cb |-> TRUE]
FinalizeOp(cb) == [op |-> "finalize", row |-> 0, cb |-> cb]

\* the batches handed to executeInsert: for each row whether its run succeeds
InsertRows == UNION {[1..n -> BOOLEAN] : n \in 0..MaxInsertRows}

\* rows of the queue still to be run
RunsQueued(queue) == Cardinality({i \in 1..Len(queue) : queue[i].op = "run"})

\* the error callback of prepare and of run: statement.finalize(); reject(error)
ErrorCallback(i) ==
  [i EXCEPT !.finalizeCalls = @ + 1,
            !.early = @ \/ RunsQueued(i.queue) # 0,
            !.queue = Append(@, FinalizeOp(FALSE)),
            !.promise = Reject(@, [kind |-> "insert", cmd |-> 0])]

\* helper.executeInsert(db, query, data): the synchronous body of
\* db.serialize queues the prepare, one run per row and finalize(callback)
ExecuteInsert ==
  /\ ins.pc = "none"
  /\ \E prepareOk \in BOOLEAN, rows \in InsertRows :
       ins' = [ins EXCEPT !.pc = "running", !.prepareOk = prepareOk,
                 !.rows = rows,
                 !.queue = <<PrepareOp>>
                             \o [i \in 1..Len(rows) |-> RunOp(i)]
                             \o <<FinalizeOp(TRUE)>>,
                 !.finalizeCalls = 1]
  /\ UNCHANGED <<batchVars, queryVars, convVars, updateVars, datasetVars,
                 writeVars>>

\* the prepare completes and its callback runs; what the engine does with
\* the operations queued on a statement that failed to prepare is either
\* outcome: they are discarded, or they are run and fail
InsertPrepareCallback ==
  /\ ins.pc = "running"
  /\ ins.queue # <<>>
  /\ Head(ins.queue).op = "prepare"
  /\ LET next == [ins EXCEPT !.queue = Tail(@)]
     IN  IF ins.prepareOk THEN ins' = next
         ELSE \E discarded \in BOOLEAN :
                ins' = IF discarded
                       THEN [ErrorCallback([next EXCEPT !.queue = <<>>])
                               EXCEPT !.finalized = TRUE]
                       ELSE ErrorCallback(next)
  /\ UNCHANGED <<batchVars, queryVars, convVars, updateVars, datasetVars,
                 writeVars>>

\* a run completes and its callback runs
InsertRunCallback ==
  /\ ins.pc = "running"
  /\ ins.queue # <<>>
  /\ Head(ins.queue).op = "run"
  /\ LET next == [ins EXCEPT !.queue = Tail(@), !.ran = @ + 1]
         ok == ins.prepareOk /\ ins.rows[Head(ins.queue).row]
     IN  ins' = IF ok THEN next ELSE ErrorCallback(next)
  /\ UNCHANGED <<batchVars, queryVars, convVars, updateVars, datasetVars,
                 writeVars>>

\* a finalize reaches the statement; the callback of the one queued by the
\* body resolves with the count
InsertFinalizeCallback ==
  /\ ins.pc = "running"
  /\ ins.queue # <<>>
  /\ Head(ins.queue).op = "finalize"
  /\ ins' = [ins EXCEPT !.queue = Tail(@),
               !.finalized = TRUE,
               !.refinalized = @ \/ ins.finalized,
               !.promise = IF Head(ins.queue).cb THEN Resolve(@) ELSE @]
  /\ UNCHANGED <<batchVars, queryVars, convVars, updateVars, datasetVars,
                 writeVars>>

\* nothing is queued any more: the call is over
InsertDone ==
  /\ ins.pc = "running"
  /\ ins.queue = <<>>
  /\ ins' = [ins EXCEPT !.pc = "done"]
  /\ UNCHANGED <<batchVars, queryVars, convVars, updateVars, datasetVars,
                 writeVars>>

\* the next call
InsertAgain ==
  /\ ins.pc = "done"
  /\ ins' = [pc |-> "none", prepareOk |-> TRUE, rows |-> <<>>, queue |-> <<>>,
             ran |-> 0, finalizeCalls |-> 0, finalized |-> FALSE,
             refinalized |-> FALSE, early |-> FALSE, promise |-> Pending]
  /\ UNCHANGED <<batchVars, queryVars, convVars, updateVars, datasetVars,
                 writeVars>>

NextInsert ==
  \/ ExecuteInsert
  \/ InsertPrepareCallback
  \/ InsertRunCallback
  \/ InsertFinalizeCallback
  \/ InsertDone
  \/ InsertAgain

SpecInsert == Init /\ [][NextInsert]_vars

\* ------------------------------ addData, updateData, deleteData, getResource
\* a row the callers pass: its keys in their order, each with a value that
\* is defined or undefined
Row(keys, undefinedKeys) ==
  [i \in 1..Len(keys) |-> [key |-> keys[i], defined |-> keys[i] \notin undefinedKeys]]

\* Object.keys(row)
Keys(row) == [i \in 1..Len(row) |-> row[i].key]

\* the rows handed to addData: both columns in either order, with a key x
\* that is no column, and with a column whose value is undefined
AddRows ==
  {Row(<<"a", "b">>, {}), Row(<<"b", "a">>, {}), Row(<<"a", "b", "x">>, {}),
   Row(<<"a", "b">>, {"b"})}

\* the rows handed to updateData and deleteData
KeyRows == {Row(<<"a">>, {}), Row(<<"a", "x">>, {})}

\* the batches of at most MaxWriteRows of these rows
RowBatches(rows) == UNION {[1..n -> rows] : n \in 0..MaxWriteRows}

\* obj[key] !== undefined: an own key with a defined value, or a name every
\* object inherits
HasValue(row, key) ==
  IF \E i \in 1..Len(row) : row[i].key = key
  THEN row[CHOOSE i \in 1..Len(row) : row[i].key = key].defined
  ELSE key \in InheritedKeys

\* variant: the row is handed on as it is
PickAll(obj, columns) == obj

\* pick(obj, columns): the columns that have a value in obj, in the order of
\* columns
Pick(obj, columns) ==
  LET kept == SelectSeq(columns, LAMBDA key : HasValue(obj, key))
  IN  [i \in 1..Len(kept) |-> [key |-> kept[i], defined |-> TRUE]]

\* Object.keys(row).length !== Object.keys(onlySchemaColumnRow).length
Differs(row, columns) == Len(row) # Len(Pick(row, columns))

\* warn(warning, name, code) for the first row of the call that differs
\* from its picked row: nothing is emitted for a code emitted before
Warned(rows, columns) ==
  IF (\E i \in 1..Len(rows) : Differs(rows[i], columns))
       /\ "AddDataExtraFields" \notin warnedAlready
  THEN Append(warnings,
              [code |-> "AddDataExtraFields", columns |-> columns,
               row |-> rows[CHOOSE i \in 1..Len(rows) :
                              /\ Differs(rows[i], columns)
                              /\ \A j \in 1..(i - 1) :
                                   ~Differs(rows[j], columns)]])
  ELSE warnings

\* variant: no flag makes a call fail
UnimplementedNever(flag) == FALSE

\* if (doNotThrow) throw Error(...), if (noThrow) throw Error(...)
Unimplemented(flag) == flag

\* the promise of a call
Outcome(state, response, errors) ==
  [state |-> state, response |-> response, errors |-> errors]
Waiting == Outcome("pending", "", <<>>)
Rejection(error) == Outcome("rejected", "", <<error>>)

\* a call at its first await
NewCall(fn, rows, flag) ==
  [fn |-> fn, pc |-> "schema", rows |-> rows, flag |-> flag,
   columns |-> <<>>, sqlData |-> <<>>, outcome |-> Waiting]

\* the call ends rejected with the error
Throw(call, error) == [call EXCEPT !.pc = "done", !.outcome = Rejection(error)]

\* no call made
NoWrite == [NewCall("none", <<>>, FALSE) EXCEPT !.pc = "none"]

\* the executeMany call of the call in progress
TheBatch == 1

\* a call is made when the one before has ended and the connection has
\* completed its commands; the model then follows the new call only: it
\* forgets the batch of the call before and the commands it had submitted
MayCall ==
  /\ Idle
  /\ wr.pc \in {"none", "done"}
  /\ pc[TheBatch] \in {"idle", "done"}
  /\ done = Len(log)
Call(call) ==
  /\ wr' = call
  /\ pc' = [pc EXCEPT ![TheBatch] = "idle"]
  /\ data' = [data EXCEPT ![TheBatch] = <<>>]
  /\ idx' = [idx EXCEPT ![TheBatch] = 0]
  /\ cachedStatements' = [cachedStatements EXCEPT ![TheBatch] = <<>>]
  /\ templateCalls' = [templateCalls EXCEPT ![TheBatch] = 0]
  /\ promise' = [promise EXCEPT ![TheBatch] = Pending]
  /\ log' = <<>>
  /\ done' = 0
  /\ res' = <<>>
  /\ UNCHANGED <<txnOpen, uncommitted, stored, nFail, running>>
  /\ UNCHANGED <<warnedAlready, warnings, insertVars, queryVars, convVars,
                 updateVars, datasetVars>>

\* addData(db, data) up to the await of the general schema
AddData ==
  /\ MayCall
  /\ \E rows \in RowBatches(AddRows) :
       Call(NewCall("addData", rows, FALSE))

\* updateData(db, data, upsert, throws) up to the await of the general schema
UpdateData ==
  /\ MayCall
  /\ \E rows \in RowBatches(KeyRows), throws \in BOOLEAN :
       Call(NewCall("updateData", rows, throws))

\* deleteData(db, data, doNotThrow) up to the await of the general schema
DeleteData ==
  /\ MayCall
  /\ \E rows \in RowBatches(KeyRows), doNotThrow \in BOOLEAN :
       Call(IF Unimplemented(doNotThrow)
            THEN Throw(NewCall("deleteData", rows, doNotThrow),
                       "doNotThrow is currently unimplemented")
            ELSE NewCall("deleteData", rows, doNotThrow))

\* getResource(db, noThrow) up to the await of getInfoKeys
GetResource ==
  /\ MayCall
  /\ \E noThrow \in BOOLEAN :
       Call(IF Unimplemented(noThrow)
            THEN Throw(NewCall("getResource", <<>>, noThrow),
                       "noThrow is currently unimplemented")
            ELSE [NewCall("getResource", <<>>, noThrow) EXCEPT !.pc = "info"])

\* sqliteConverter.convertRowToSqlite(schema, row): the converted row has
\* the keys of the row, in their order
ConvertRowToSqlite(schema, row) == row

\* what await getGeneralSchema(db) gives the call: the cached schema, or the
\* schema converted from the info table
SchemaRead ==
  IF conn.generalSchema # {}
  THEN [state |-> "returned", schema |-> Val(conn.generalSchema)]
  ELSE IF ~conn.open THEN [state |-> "threw", schema |-> <<>>]
  ELSE IF info.schema = {} THEN [state |-> "returned", schema |-> <<>>]
  ELSE ConvertSchema(Val(info.schema).dataSchema.v)

\* getGeneralSchema answers and the rows are converted: addData picks the
\* columns of the schema and warns; convertRowToSqlite keeps the keys of a
\* row, and what it does with a key that is no column is either outcome
WriteSchema ==
  /\ wr.pc = "schema"
  /\ running = 0
  /\ LET read == SchemaRead
         columns == SchemaKeys(read.schema)
         picked == [i \in 1..Len(wr.rows) |->
                      IF wr.fn = "addData" THEN Pick(wr.rows[i], columns)
                      ELSE wr.rows[i]]
         unknown == \E i \in 1..Len(picked) : \E j \in 1..Len(picked[i]) :
                      ~OwnKeyIn(picked[i][j].key, read.schema)
     IN  IF read.state = "threw"
         THEN /\ wr' = Throw(wr, "getGeneralSchema")
              /\ UNCHANGED <<conn, warnedAlready, warnings>>
         ELSE /\ conn' = IF conn.generalSchema # {} THEN conn ELSE Loaded(read)
              /\ warnings' = IF wr.fn = "addData"
                             THEN Warned(wr.rows, columns)
                             ELSE warnings
              /\ warnedAlready' = {warnings'[i].code : i \in 1..Len(warnings')}
              /\ \E threw \in IF unknown THEN BOOLEAN ELSE {FALSE} :
                   wr' = IF threw THEN Throw(wr, "convertRowToSqlite")
                         ELSE [wr EXCEPT !.pc = "info",
                                         !.columns = columns,
                                         !.sqlData =
                                           [i \in 1..Len(picked) |->
                                              ConvertRowToSqlite(read.schema,
                                                                 picked[i])]]
  /\ UNCHANGED <<info, dataTable, create, reader, insertVars, batchVars,
                 queryVars, convVars, updateVars>>

\* getInfoKeys(db, ["schema"]) answers: infoTable[0].schema.uniqueIndex, the
\* check of deleteData, and the call of executeMany with the converted rows
WriteInfo ==
  /\ wr.pc = "info"
  /\ wr.fn # "getResource"
  /\ running = 0
  /\ LET c == TheBatch
         failure ==
           IF ~conn.open THEN "getInfoKeys"
           ELSE IF info.schema = {} THEN "TypeError"
           ELSE IF wr.fn = "deleteData"
                     /\ Len(Val(info.schema).uniqueIndex.v) = 0
           THEN "Cannot use deleteData() on a dataset with no uniqueIndex"
           ELSE ""
     IN  IF failure # ""
         THEN /\ wr' = Throw(wr, failure)
              /\ UNCHANGED <<data, pc, running>>
         ELSE /\ wr' = [wr EXCEPT !.pc = "batch"]
              /\ data' = [data EXCEPT ![c] =
                            [i \in 1..Len(wr.sqlData) |-> Keys(wr.sqlData[i])]]
              /\ pc' = [pc EXCEPT ![c] = "begin"]
              /\ running' = Thread(c, "begin")
  /\ UNCHANGED <<idx, cachedStatements, templateCalls, promise, log, done,
                 res, txnOpen, uncommitted, stored, nFail>>
  /\ UNCHANGED <<warnedAlready, warnings, insertVars, queryVars, convVars,
                 updateVars, datasetVars>>

\* getInfoKeys answers getResource
ResourceInfo ==
  /\ wr.pc = "info"
  /\ wr.fn = "getResource"
  /\ wr' = IF ~conn.open THEN Throw(wr, "getInfoKeys")
            ELSE [wr EXCEPT !.pc = "done",
                            !.outcome = Outcome("resolved", "", <<>>)]
  /\ UNCHANGED <<warnedAlready, warnings, insertVars, batchVars, queryVars,
                 convVars, updateVars, datasetVars>>

\* the promise of executeMany is settled: addData and deleteData return or
\* throw; updateData catches the error when throws is false
WriteReturn ==
  /\ wr.pc = "batch"
  /\ running = 0
  /\ promise[TheBatch].state # "pending"
  /\ LET rejected == promise[TheBatch].state = "rejected"
     IN  wr' = IF wr.fn = "updateData"
               THEN IF ~rejected
                    THEN [wr EXCEPT !.pc = "done",
                            !.outcome = Outcome("resolved", "Success", <<>>)]
                    ELSE IF wr.flag THEN Throw(wr, "executeMany")
                    ELSE [wr EXCEPT !.pc = "done",
                            !.outcome = Outcome("resolved", "null",
                                                <<"executeMany">>)]
               ELSE IF rejected THEN Throw(wr, "executeMany")
               ELSE [wr EXCEPT !.pc = "done",
                       !.outcome = Outcome("resolved", "", <<>>)]
  /\ UNCHANGED <<warnedAlready, warnings, insertVars, batchVars, queryVars,
                 convVars, updateVars, datasetVars>>

\* the datasets a database holds when the calls are made: none, or the
\* columns a and b in this order with and without a unique index on a
WriteSchemas ==
  {[dataSchema |-> Obj(<<[key |-> "a", value |-> TdxType("number")],
                         [key |-> "b", value |-> TdxType("string")]>>),
    uniqueIndex |-> uniqueIndex] :
     uniqueIndex \in {Arr(<<>>), Arr(<<IndexEntry("asc", "a")>>)}}

\* a database without dataset or with one that createDataset made, on a
\* connection that is open or was closed, before any call; the engine
\* rejects at most one command of the calls
InitWrite ==
  /\ pc = [b \in Batches |-> "idle"]
  /\ data = [b \in Batches |-> <<>>]
  /\ idx = [b \in Batches |-> 0]
  /\ cachedStatements = [b \in Batches |-> <<>>]
  /\ templateCalls = [b \in Batches |-> 0]
  /\ promise = [b \in Batches |-> Pending]
  /\ log = <<>>
  /\ done = 0
  /\ res = <<>>
  /\ txnOpen = FALSE
  /\ uncommitted = {}
  /\ stored = {}
  /\ nFail = MaxFail - 1
  /\ running = 0
  /\ InitQuery
  /\ InitConvert
  /\ InitUpdate
  /\ InitInsert
  /\ InitCalls
  /\ create = [pc |-> "none"]
  /\ reader = [pc |-> "none"]
  /\ \E open \in BOOLEAN :
       conn = [open |-> open, generalSchema |-> {}, loads |-> 0]
  /\ \/ /\ info = [exists |-> FALSE, id |-> {}, schema |-> {}]
        /\ dataTable = [exists |-> FALSE, columns |-> <<>>, index |-> {}]
     \/ \E schema \in WriteSchemas :
          /\ info = [exists |-> TRUE, id |-> {GeneratedId}, schema |-> {schema}]
          /\ dataTable =
               [exists |-> TRUE,
                columns |-> MapSchema(ConvertSchema(schema.dataSchema.v).schema),
                index |-> IF Len(schema.uniqueIndex.v) = 0 THEN {}
                          ELSE {PrimaryKey(schema.uniqueIndex)}]

NextWrite ==
  \/ AddData
  \/ UpdateData
  \/ DeleteData
  \/ GetResource
  \/ WriteSchema
  \/ WriteInfo
  \/ ResourceInfo
  \/ WriteReturn
  \/ Run

SpecWrite == InitWrite /\ [][NextWrite]_vars

\* ------------------------------------------------------------- claims
CmdsOf(b) == {j \in 1..Len(log) : log[j].b = b}

Count(b, op) == Cardinality({j \in CmdsOf(b) : log[j].op = op})

\* the synchronous part of the call has run to its end
Submitted(b) == pc[b] \in {"waiting", "done"}

Thrown(b) == promise[b].err.kind = "template"

RowOps == {"PREPARE", "RUN"}

\* prepare and run commands of call b the engine has rejected
FailedRows(b) ==
  {j \in CmdsOf(b) : j <= done /\ ~res[j] /\ log[j].op \in RowOps}

Rank(op) ==
  CASE op = "BEGIN" -> 0
    [] op \in RowOps -> 1
    [] op \in {"COMMIT", "ROLLBACK"} -> 2
    [] op = "FINALIZE" -> 3

\* C1: every executeMany call submits exactly one BEGIN, before any row
\* statement, and exactly one COMMIT, whatever the batch: empty, successful,
\* with failing rows, or with a template function that throws.
C1_OneBeginOneCommit ==
  \A b \in Batches :
    /\ Count(b, "BEGIN") = (IF pc[b] \in {"idle", "begin"} THEN 0 ELSE 1)
    /\ Count(b, "COMMIT") =
         (IF pc[b] \in {"idle", "begin", "loop", "commit"} THEN 0 ELSE 1)
    /\ \A j \in CmdsOf(b) :
         log[j].op \in RowOps =>
           \E i \in CmdsOf(b) : i < j /\ log[i].op = "BEGIN"

C1_Witness ==
  \E b \in Batches :
    /\ pc[b] = "done"
    /\ Thrown(b)
    /\ idx[b] >= 1
    /\ FailedRows(b) # {}
    /\ Count(b, "COMMIT") = 1

\* C2 (as stated): a batch of N rows with K distinct ordered column lists
\* calls the template function and compiles a statement exactly K times,
\* and finalizes each of them exactly once after the rows that use it.
C2_KDistinctColumnSets ==
  \A b \in Batches :
    Submitted(b) =>
      LET K == Cardinality({data[b][i] : i \in 1..Len(data[b])})
      IN /\ templateCalls[b] = K
         /\ Count(b, "PREPARE") = K
         /\ Count(b, "FINALIZE") = K

\* C2 (amended): a statement is compiled once per distinct cache key
\* Object.keys(row).join() among the rows the loop reached (all N rows unless
\* the template function throws, which is one more call of it and no
\* statement), and each compiled statement is finalized exactly once, after
\* every row statement that uses it.
C2_OnePerCacheKey ==
  \A b \in Batches :
    LET cache == cachedStatements[b]
        keys == {Join(data[b][i]) : i \in 1..idx[b]}
    IN /\ Len(cache) = Cardinality(keys)
       /\ Count(b, "PREPARE") = Len(cache)
       /\ templateCalls[b] = Len(cache) + (IF Thrown(b) THEN 1 ELSE 0)
       /\ (Submitted(b) /\ ~Thrown(b)) => idx[b] = Len(data[b])
       /\ ~Submitted(b) => Count(b, "FINALIZE") = 0
       /\ Submitted(b) =>
            /\ \A s \in 1..Len(cache) :
                 Cardinality({j \in Finalizes(b) : log[j].s = s}) = 1
            /\ \A j \in Finalizes(b) :
                 \A i \in CmdsOf(b) :
                   (log[i].op = "RUN" /\ log[i].s = log[j].s) => i < j

C2_Witness ==
  \E b \in Batches :
    /\ pc[b] = "done"
    /\ Len(data[b]) = 2
    /\ data[b][1] = data[b][2]
    /\ Count(b, "RUN") = 2
    /\ Count(b, "PREPARE") = 1
    /\ Count(b, "FINALIZE") = 1

\* C3 (as stated): every finalize of a batch is submitted before its COMMIT.
C3_FinalizeBeforeCommit ==
  \A b \in Batches :
    \A j, k \in CmdsOf(b) :
      (log[j].op = "FINALIZE" /\ log[k].op = "COMMIT") => j < k

\* C3 (amended): the command order of a batch is BEGIN, the row statements,
\* COMMIT, and then the finalize of every cached statement.
C3_CommitThenFinalize ==
  \A b \in Batches :
    /\ \A i, j \in CmdsOf(b) :
         i < j => Rank(log[i].op) <= Rank(log[j].op)
    /\ Submitted(b) =>
         /\ Count(b, "COMMIT") = 1
         /\ \A s \in 1..Len(cachedStatements[b]) :
              \E j \in CmdsOf(b) : log[j] = Cmd("FINALIZE", b, s, 0)

C3_Witness ==
  \E b \in Batches :
    /\ pc[b] = "done"
    /\ Len(cachedStatements[b]) = 2
    /\ \E k \in CmdsOf(b) :
         /\ log[k].op = "COMMIT"
         /\ \A j \in Finalizes(b) : k < j
    /\ Cardinality(Finalizes(b)) = 2

\* C4 (as stated): when a row fails to prepare or execute, the promise is
\* rejected with the error of the first failing row, and not before COMMIT
\* and every finalize of the batch have completed.
C4_RejectAfterCleanup ==
  \A b \in Batches :
    (FailedRows(b) # {} /\ promise[b].state = "rejected") =>
      /\ promise[b].err = [kind |-> "engine", cmd |-> Min(FailedRows(b))]
      /\ Submitted(b)
      /\ \A j \in CmdsOf(b) : j <= done

\* C4 (amended): when the engine reports a failing prepare or run, the
\* promise is rejected by that callback with the first error raised (the
\* template function's exception if it threw, else the error of the first
\* failing command); COMMIT and every finalize have been submitted by then,
\* but need not have completed.
C4_RejectAtFirstFailure ==
  \A b \in Batches :
    FailedRows(b) # {} =>
      /\ promise[b].state = "rejected"
      /\ \/ Thrown(b)
         \/ promise[b].err = [kind |-> "engine", cmd |-> Min(FailedRows(b))]
      /\ Submitted(b)
      /\ Count(b, "COMMIT") = 1
      /\ Count(b, "FINALIZE") = Len(cachedStatements[b])

C4_Witness ==
  \E b \in Batches :
    /\ Cardinality(FailedRows(b)) = 2
    /\ promise[b] = [state |-> "rejected",
                     err |-> [kind |-> "engine", cmd |-> Min(FailedRows(b))]]
    /\ \E j \in CmdsOf(b) : j > done /\ log[j].op = "COMMIT"

\* C5: once a row of a batch has failed (prepare or execution rejected by
\* the engine, or the template function throws), no statement for a later
\* row of that batch is prepared or executed (res[j]: the engine carried the
\* later command out).
C5_StopAfterFailure ==
  \A b \in Batches :
    /\ \A i \in FailedRows(b) :
         \A j \in CmdsOf(b) :
           (i < j /\ j <= done /\ res[j] /\ log[j].op \in RowOps) =>
             log[j].row <= log[i].row
    /\ Thrown(b) =>
         \A j \in CmdsOf(b) :
           log[j].op \in RowOps => log[j].row < promise[b].err.cmd

\* C6: executeMany never submits a ROLLBACK; once the commands of a batch
\* have completed, every row whose statement executed successfully is
\* stored, also when other rows of the batch failed.
C6_NoRollbackPartialCommit ==
  /\ \A j \in 1..Len(log) : log[j].op # "ROLLBACK"
  /\ \A j \in 1..done :
       (log[j].op = "RUN" /\ res[j]) =>
         <<log[j].b, log[j].row>> \in stored \cup uncommitted
  /\ \A b \in Batches :
       (Submitted(b) /\ \A j \in CmdsOf(b) : j <= done) =>
         \A j \in CmdsOf(b) :
           (log[j].op = "RUN" /\ res[j]) => <<b, log[j].row>> \in stored

C6_Witness ==
  \E b \in Batches :
    /\ pc[b] = "done"
    /\ promise[b].state = "rejected"
    /\ \E i, j \in CmdsOf(b) :
         /\ log[i].op = "RUN" /\ ~res[i]
         /\ log[j].op = "RUN" /\ res[j]
         /\ <<b, log[j].row>> \in stored
         /\ <<b, log[i].row>> \notin stored

\* C7: any two rows of a batch that map to the same cache key have the same
\* ordered column list, so every row is run on a statement compiled for
\* exactly its own columns in its own order, also for names with a comma.
C7_SameKeySameColumns ==
  \A j \in 1..Len(log) :
    log[j].op = "RUN" =>
      cachedStatements[log[j].b][log[j].s].cols = data[log[j].b][log[j].row]

\* C8: finalize is submitted for every cached statement and each of them
\* completes even when another finalize fails, and a failed finalize makes
\* the promise rejected, never fulfilled.
C8_FinalizeAllRejectOnFailure ==
  \A b \in Batches :
    /\ Submitted(b) =>
         \A s \in 1..Len(cachedStatements[b]) :
           \E j \in CmdsOf(b) : log[j] = Cmd("FINALIZE", b, s, 0)
    /\ promise[b].state = "fulfilled" => FailedFinalizes(b) = {}
    /\ (pc[b] = "done" /\ FailedFinalizes(b) # {}) =>
         promise[b].state = "rejected"

C8_Witness ==
  \E b \in Batches :
    /\ pc[b] = "done"
    /\ promise[b].state = "rejected"
    /\ FailedRows(b) = {}
    /\ \E j \in FailedFinalizes(b) :
         \E k \in Finalizes(b) : j < k /\ k <= done /\ res[k]

\* C9: the command streams of two batches started concurrently on the same
\* connection do not interleave, and no BEGIN meets an open transaction.
C9_NoInterleaving ==
  /\ \A j \in 2..Len(log) :
       log[j].b # log[j - 1].b => \A i \in 1..(j - 1) : log[i].b # log[j].b
  /\ \A j \in 1..done : log[j].op = "BEGIN" => res[j]

C9_Witness ==
  /\ pc[1] = "waiting"
  /\ pc[2] = "waiting"
  /\ done = 0
  /\ Count(1, "RUN") >= 1
  /\ Count(2, "RUN") >= 1

Converted(key) ==
  {sqliteSchema.schema[i].type :
     i \in {j \in 1..Len(sqliteSchema.schema) : sqliteSchema.schema[j].key = key}}

\* a type list of one or two strings
StringList(l) ==
  /\ l.t = "array"
  /\ Len(l.v) \in {1, 2}
  /\ \A i \in 1..Len(l.v) : l.v[i].t = "string"

\* the derived type of a type list in lower case, "" when there is none
DerivedName(l) == IF Len(l.v) = 2 THEN ToLowerCase(l.v[2].v) ELSE ""

Malformed(d) ==
  \/ d.t \notin {"array", "object"}
  \/ /\ HasOwnProperty(d, "__tdxType")
     /\ LET l == Property(d, "__tdxType")
        IN  \/ l.t # "array"
            \/ l.v = <<>>
            \/ \E i \in 1..Len(l.v) : l.v[i].t # "string"
            \/ ToLowerCase(l.v[1].v) \notin {"string", "boolean", "date", "number"}

\* C19: convertSchema returns for every data schema, and the schema it
\* returns holds every column whose descriptor is unrecognized or malformed,
\* with type TEXT.
C19_NeverFailsNeverDrops ==
  sqliteSchema.state # "none" =>
    /\ sqliteSchema.state = "returned"
    /\ \A i \in 1..Len(tdxSchema) :
         Malformed(tdxSchema[i].value) => Converted(tdxSchema[i].key) = {"TEXT"}

NumericTypes == {"NUMERIC", "INTEGER", "REAL"}

\* C20: decoding the encoding of a value valid under its type gives the
\* value back, with the default options and with onlyStringify, and TEXT
\* and numeric values are encoded unchanged.
C20_RoundTrip ==
  codec.pc = "tdx" =>
    /\ codec.tdx = codec.value
    /\ codec.type \in NumericTypes \cup {"TEXT"} => codec.sqlite = codec.value

\* C20 (amended): with onlyStringify the round trip gives the value back
\* and TEXT values are encoded unchanged; numeric values are encoded
\* unchanged under both options; with the default options a TEXT, OBJECT or
\* ARRAY value is encoded between double quotes with its own double quotes
\* doubled, and decoding does not give the value back.
C20_RoundTripOnlyStringify ==
  codec.pc = "tdx" =>
    /\ codec.onlyStringify \/ codec.type \in NumericTypes =>
         codec.tdx = codec.value
    /\ (codec.onlyStringify /\ codec.type = "TEXT") \/ codec.type \in NumericTypes =>
         codec.sqlite = codec.value
    /\ ~codec.onlyStringify /\ codec.type \notin NumericTypes =>
         /\ codec.sqlite.t = "string"
         /\ Len(codec.sqlite.v) >= 2
         /\ Head(codec.sqlite.v) = "\""
         /\ codec.tdx # codec.value

\* an array holding a double quote went through the codec with onlyStringify
C20_Witness ==
  /\ codec.pc = "tdx"
  /\ codec.onlyStringify
  /\ codec.type = "ARRAY"
  /\ codec.value = Arr(<<Str("\""), Num(7)>>)
  /\ codec.sqlite = Str("[\"\\\"\",7]")
  /\ codec.tdx = codec.value

\* the keys of a sequence of [key, value]
KeysOf(entries) == [i \in 1..Len(entries) |-> entries[i].key]

\* the column list of the select query; none when the builder selects "*"
Resolved == IF selectQuery.columns = <<"*">> THEN <<>> ELSE selectQuery.columns

\* C11: once the projection is resolved, the column list holds the schema
\* columns given a truthy projection value when there is one, and otherwise
\* the schema columns in schema order without those given a falsy value;
\* projection keys that are not schema columns have no effect, so the list
\* only holds schema columns.
C11_ProjectionResolution ==
  qCall.pc \in {"read", "returned"} =>
    LET schema == qCall.schema
        included == SelectSeq(qCall.projection,
                      LAMBDA e : OwnKeyIn(e.key, schema) /\ e.value # 0)
        excluded == {qCall.projection[i].key :
                       i \in {j \in 1..Len(qCall.projection) :
                                qCall.projection[j].value = 0}}
    IN  /\ Resolved = (IF Len(included) # 0 THEN KeysOf(included)
                       ELSE SelectSeq(SchemaKeys(schema),
                                      LAMBDA k : k \notin excluded))
        /\ \A i \in 1..Len(Resolved) : OwnKeyIn(Resolved[i], schema)

\* a getDistinct call past the early returns whose one included column has
\* a type of the set
DistinctOver(types) ==
  /\ qCall.fn = "getDataQuery"
  /\ qCall.distinct
  /\ qCall.pc \in {"read", "returned"}
  /\ Len(qCall.includedColumns) = 1
  /\ SchemaType(qCall.schema, qCall.includedColumns[1]) \in types

\* C12: a distinct query whose single included column has type ARRAY,
\* OBJECT or NDARRAY returns an empty list and issues no read.
C12_NoDistinctOnCompound ==
  DistinctOver({"ARRAY", "OBJECT", "NDARRAY"}) =>
    /\ reads = <<>>
    /\ qCall.pc = "returned"
    /\ qResult = [state |-> "resolved", data |-> <<>>]

\* C12 (amended): a distinct query whose single included column has type
\* NDARRAY returns an empty list and issues no read; over an ARRAY or OBJECT
\* column it issues one distinct read of that column.
C12_NoDistinctOnNdarray ==
  /\ DistinctOver({"NDARRAY"}) =>
       /\ reads = <<>>
       /\ qCall.pc = "returned"
       /\ qResult = [state |-> "resolved", data |-> <<>>]
  /\ DistinctOver({"ARRAY", "OBJECT"}) =>
       reads = <<[columns |-> qCall.includedColumns, distinct |-> TRUE]>>

\* getDistinct(db, "b") returned on a schema whose column b is an ndarray
C12_Witness ==
  /\ DistinctOver({"NDARRAY"})
  /\ qCall.projection = <<[key |-> "b", value |-> 1]>>
  /\ Len(qCall.schema) = 3
  /\ qResult.state = "resolved"

\* C13: a distinct query issues a read only when exactly one schema column
\* is explicitly included; with an empty key or a key that is no column of
\* the schema it returns an empty list without a read, and a distinct result
\* only holds values of the one included column.
C13_DistinctReadsOneColumn ==
  qCall.fn = "getDataQuery" /\ qCall.distinct /\ qCall.pc \in {"read", "returned"} =>
    LET key == IF Len(qCall.projection) # 0 THEN qCall.projection[1].key ELSE ""
        type == SchemaType(qCall.schema, key)
    IN  /\ reads # <<>> =>
             /\ OwnKeyIn(key, qCall.schema)
             /\ reads = <<[columns |-> <<key>>, distinct |-> TRUE]>>
        /\ ~OwnKeyIn(key, qCall.schema) =>
             /\ reads = <<>>
             /\ qResult = [state |-> "resolved", data |-> <<>>]
        /\ \A i \in 1..Len(qResult.data) :
             \E r \in 1..MaxReadRows : qResult.data[i] = DocValue(type, key, r)

\* C14: updateDataByQuery with an empty or missing update object resolves
\* with a count of 0, hands no statement to the engine and leaves the table
\* as it was.
C14_EmptyUpdateNoStatement ==
  upd.pc # "none" /\ upd.update \in {Undefined, Null, Obj(<<>>)} =>
    /\ upd.pc = "done"
    /\ upd.promise = [state |-> "resolved", count |-> {0}]
    /\ statements = <<>>
    /\ table = upd.before

\* an update without an update object returned on a table of two rows
C14_Witness ==
  /\ upd.pc = "done"
  /\ upd.update = Undefined
  /\ upd.query = {}
  /\ Len(table) = 2
  /\ upd.promise.state = "resolved"

\* some entry of the unique index has not exactly one key, or a key other
\* than asc and desc
BadIndex(uniqueIndex) ==
  \E i \in 1..Len(uniqueIndex.v) :
    \/ Len(uniqueIndex.v[i].v) # 1
    \/ uniqueIndex.v[i].v[1].key \notin {"asc", "desc"}

\* C15: createDataset on a database without a dataset is rejected whenever
\* some uniqueIndex entry has not exactly one key or a key other than asc
\* and desc, and then neither the data table nor the unique index is created.
C15_BadIndexCreatesNothing ==
  /\ create.pc # "none"
  /\ ~create.before.info.exists
  /\ BadIndex(create.options.schema.uniqueIndex)
  => /\ create.pc = "done" => create.outcome.state = "rejected"
     /\ ~dataTable.exists
     /\ dataTable.index = {}

\* a call on a connection with a dataset: what the info table stored
Stored == Val(create.before.info.schema)

\* the properties of an object, whatever their order
Properties(x) == {x.v[i] : i \in 1..Len(x.v)}

\* two schemas of the same columns and the same index entries
SameSchema(x, y) ==
  /\ Properties(x.dataSchema) = Properties(y.dataSchema)
  /\ Len(x.uniqueIndex.v) = Len(y.uniqueIndex.v)
  /\ \A i \in 1..Len(x.uniqueIndex.v) :
       Properties(x.uniqueIndex.v[i]) = Properties(y.uniqueIndex.v[i])

C16_WitnessRejected ==
  /\ create.pc = "done"
  /\ create.before.info.schema # {}
  /\ conn.open
  /\ create.outcome = Rejects("schemas don't coincide")

\* C17: the general schema is loaded from the info table at most once per
\* open connection, the cached schema is cleared when closeDatabase is done,
\* and no getGeneralSchema call made after the close returns a schema.
C17_LoadedOnceClearedOnClose ==
  /\ conn.loads <= 1
  /\ ~conn.open => conn.generalSchema = {}
  /\ reader.pc = "done" /\ ~reader.open => reader.outcome.state = "rejected"

\* C28: a createDataset call that is rejected leaves the info table, the
\* stored id and schema and the data table as they were before the call,
\* and no call returns a dataset id for a schema with columns while the
\* data table does not exist.
C28_FailedCreateLeavesNothing ==
  /\ create.pc = "done" /\ create.outcome.state = "rejected" /\ conn.open
       => /\ info = create.before.info
          /\ dataTable = create.before.dataTable
  /\ create.pc = "done" /\ create.outcome.state = "resolved"
       /\ Len(create.options.schema.dataSchema.v) # 0
       => dataTable.exists

\* the template function threw in call b: it was called once more than
\* there are cached statements
TemplateThrew(b) == templateCalls[b] > Len(cachedStatements[b])

\* the commands of call b that the engine reports to a callback and rejected
Failed(b) == FailedRows(b) \cup FailedFinalizes(b)

C26_RunsToCompletion ==
  /\ <>[](\A b \in Batches :
            pc[b] # "idle" =>
              (Count(b, "COMMIT") = 1 /\ promise[b].state # "pending"))
  /\ [][\A b \in Batches :
          promise[b].state # "pending" => promise'[b] = promise[b]]_vars

\* an empty batch was fulfilled, and a batch whose template function threw
\* was rejected after its COMMIT
C26_Witness ==
  \E b, c \in Batches :
    /\ pc[b] = "done" /\ Len(data[b]) = 0 /\ promise[b].state = "fulfilled"
    /\ pc[c] = "done" /\ TemplateThrew(c) /\ promise[c].state = "rejected"
    /\ Count(c, "COMMIT") = 1

\* a finished read of rows (not of distinct values) that returned rows
RowsReturned ==
  /\ qCall.pc = "returned"
  /\ ~qCall.distinct
  /\ qResult.state = "resolved"

\* every value of a returned row is what the read owes for its column: the
\* decoded document value for OBJECT and ARRAY, the stored value for TEXT
Decoded(fn) ==
  (RowsReturned /\ qCall.fn = fn) =>
    \A r \in 1..Len(qResult.data) : \A i \in 1..Len(qResult.data[r]) :
      LET key == qResult.data[r][i].key
          type == SchemaType(qCall.schema, key)
      IN  type \in {SQLITE_GENERAL_TYPE_OBJECT, SQLITE_GENERAL_TYPE_ARRAY,
                    SQLITE_TYPE_TEXT}
            => qResult.data[r][i].value = DocValue(type, key, r)

\* C24: every read returns the OBJECT and ARRAY values of its rows decoded,
\* whatever the schema, also when it has ARRAY columns and no OBJECT column,
\* and the TEXT values as stored
C24_ReadsDecodeCompoundColumns ==
  /\ Decoded("getDataQuery")
  /\ Decoded("getDatasetData")

\* the part of C24 that getDataQuery of the current module satisfies
C24_GetDataQueryDecodes == Decoded("getDataQuery")

\* a read by getDataQuery that returned a decoded ARRAY value of a schema
\* without OBJECT column
C24_ArrayOnlyRead ==
  /\ RowsReturned
  /\ qCall.fn = "getDataQuery"
  /\ ~IncludesType(qCall.schema, SQLITE_GENERAL_TYPE_OBJECT)
  /\ \E r \in 1..Len(qResult.data) : \E i \in 1..Len(qResult.data[r]) :
       qResult.data[r][i].value.t = "array"

\* C25: the order of the query holds an ascending entry for each entry of
\* options.sort with value 1 and a descending one for each with value -1 and
\* nothing else, it is unset when no entry has one of these values, and the
\* offset is options.skip when that is not 0 and unset otherwise
C25_SortAndOffsetShaping ==
  qCall.fn = "getDataQuery" =>
    LET surviving == {i \in 1..Len(qCall.sort) :
                        qCall.sort[i].value \in {Num(1), Num(0 - 1)}}
    IN  /\ (surviving = {}) <=> (selectQuery.order = {})
        /\ \A order \in selectQuery.order :
             /\ Len(order) = Cardinality(surviving)
             /\ \A i \in surviving : \E j \in 1..Len(order) :
                  /\ order[j].key = qCall.sort[i].key
                  /\ order[j].value = (IF qCall.sort[i].value = Num(1)
                                       THEN "ASC" ELSE "DESC")
        /\ selectQuery.offset =
             (IF qCall.skip # {} /\ qCall.skip # {0} THEN qCall.skip ELSE {})

\* a query with one entry kept, one dropped and an offset, and the read made
C25_Witness ==
  /\ qCall.fn = "getDataQuery"
  /\ qCall.pc = "returned"
  /\ qCall.sort = <<[key |-> "b", value |-> Num(2)],
                    [key |-> "a", value |-> Num(0 - 1)]>>
  /\ qCall.skip = {1}
  /\ selectQuery.order = {<<[key |-> "a", value |-> "DESC"]>>}
  /\ selectQuery.offset = {1}

\* a query whose sort entries are all dropped and whose skip is 0
C25_WitnessDropped ==
  /\ qCall.fn = "getDataQuery"
  /\ qCall.sort = <<[key |-> "a", value |-> Str("1")]>>
  /\ qCall.skip = {0}
  /\ selectQuery.order = {}
  /\ selectQuery.offset = {}

\* C27: executeInsert finalizes its statement exactly once and after every
\* row has been run, whether or not the prepare or a run fails: finalize is
\* never called while rows are still to be run, it never reaches a statement
\* that is finalized already, and one call of it was made when the call ends
C27_FinalizedExactlyOnce ==
  /\ ~ins.early
  /\ ~ins.refinalized
  /\ ins.pc = "done" => ins.finalizeCalls = 1 /\ ins.finalized

\* without any error the statement is finalized once, after the rows
C27_FinalizedOnceWithoutError ==
  (ins.pc = "done" /\ ins.prepareOk /\ \A i \in 1..Len(ins.rows) : ins.rows[i])
    => /\ ins.finalizeCalls = 1
       /\ ins.finalized /\ ~ins.refinalized /\ ~ins.early
       /\ ins.ran = Len(ins.rows)
       /\ ins.promise.state = "fulfilled"

\* a call whose first of two rows failed ended with three finalize calls
C27_Refinalized ==
  /\ ins.pc = "done"
  /\ ins.prepareOk
  /\ Len(ins.rows) = 2 /\ ~ins.rows[1] /\ ~ins.rows[2]
  /\ ins.finalizeCalls = 3
  /\ ins.refinalized
  /\ ins.early

\* the call in progress has ended
Ended == wr.pc = "done"

\* the dataset of the database has an empty uniqueIndex
EmptyUniqueIndex ==
  \E schema \in info.schema : Len(schema.uniqueIndex.v) = 0

C23_WitnessDoNotThrow ==
  /\ wr.fn = "deleteData" /\ wr.flag /\ wr.outcome.state = "rejected"
  /\ info.exists /\ ~EmptyUniqueIndex /\ conn.open
C23_WitnessNoThrow ==
  /\ wr.fn = "getResource" /\ wr.flag /\ wr.outcome.state = "rejected"
  /\ info.exists /\ conn.open

\* C22: an ended updateData with throws = false is resolved, with the error
\* in result.errors and a response that is not "Success" when there was an
\* error; with throws = true an error rejects it; and it is resolved with
\* "Success" and no errors exactly when the batch was fulfilled
C22_UpdateDataNeverRejectsUnlessThrows ==
  (wr.fn = "updateData" /\ Ended) =>
    /\ ~wr.flag => wr.outcome.state = "resolved"
    /\ (wr.outcome.state = "resolved" /\ promise[TheBatch].state # "fulfilled")
         => /\ wr.outcome.errors # <<>>
            /\ wr.outcome.response # "Success"
    /\ (wr.flag /\ promise[TheBatch].state # "fulfilled")
         => wr.outcome.state = "rejected"
    /\ promise[TheBatch].state = "fulfilled"
         <=> /\ wr.outcome.state = "resolved"
             /\ wr.outcome.response = "Success"
             /\ wr.outcome.errors = <<>>

\* the part of C22 the try block gives: an error of the batch itself is
\* caught when throws is false
C22_BatchErrorsCaught ==
  (wr.fn = "updateData" /\ Ended /\ promise[TheBatch].state = "rejected"
     /\ ~wr.flag)
    => wr.outcome = Outcome("resolved", "null", <<"executeMany">>)

\* an updateData with throws = false ended rejected
C22_RejectedAlthoughThrowsFalse ==
  wr.fn = "updateData" /\ Ended /\ ~wr.flag /\ wr.outcome.state = "rejected"

\* the columns of the schema that have a defined value in the row, in the
\* order of the schema
Populated(row, columns) ==
  SelectSeq(columns, LAMBDA key :
    \E i \in 1..Len(row) : row[i].key = key /\ row[i].defined)

\* an addData whose batch went through the loop without a template error
Compiled ==
  /\ wr.fn = "addData"
  /\ Submitted(TheBatch)
  /\ ~TemplateThrew(TheBatch)

C21_WitnessTwo ==
  /\ Compiled
  /\ wr.rows = <<Row(<<"b", "a">>, {}), Row(<<"a", "b">>, {"b"})>>
  /\ Count(TheBatch, "PREPARE") = 2

\* C30: the warning AddDataExtraFields is emitted at most once, only by a
\* call with a row that has a key that is no schema column, and every row
\* handed to executeMany holds schema columns only, each with a defined
\* value, in the order of the schema
C30_WarnOnceOnlyForExtraKeys ==
  /\ Len(warnings) <= 1
  /\ \A w \in 1..Len(warnings) :
       \E j \in 1..Len(warnings[w].row) :
         warnings[w].row[j].key
           \notin {warnings[w].columns[k] : k \in 1..Len(warnings[w].columns)}
  /\ (wr.fn = "addData" /\ pc[TheBatch] # "idle") =>
       /\ Len(data[TheBatch]) = Len(wr.rows)
       /\ \A i \in 1..Len(wr.rows) :
            data[TheBatch][i] = Populated(wr.rows[i], wr.columns)

\* the parts of C30 that hold: at most one warning, emitted for a row that
\* differs from its picked row, and only picked rows handed on
C30_WarnOnce ==
  /\ Len(warnings) <= 1
  /\ \A w \in 1..Len(warnings) :
       Keys(warnings[w].row) # Populated(warnings[w].row, warnings[w].columns)
  /\ (wr.fn = "addData" /\ pc[TheBatch] # "idle") =>
       \A i \in 1..Len(wr.rows) :
         data[TheBatch][i] = Populated(wr.rows[i], wr.columns)

\* an addData ended whose row has an extra key but was not the call that
\* warned
C30_WarnedOnce ==
  /\ wr.fn = "addData"
  /\ Ended
  /\ wr.rows = <<Row(<<"a", "b", "x">>, {})>>
  /\ Len(warnings) = 1
  /\ warnings[1].row = Row(<<"a", "b">>, {"b"})

====
